---- MODULE Spec2Model ----
(***************************************************************************)
(* Brightness coordinator of the dms server (internal/server/brightness).  *)
(*                                                                         *)
(* The model follows the coordinator revision of manager.go / types.go:    *)
(* the Manager with its own per-device debounce table, the poll loop, the  *)
(* two backend initialisation goroutines, the subscriber registry and      *)
(* Close. Its backends are sysfs.go (filesystem) and the bus backend with  *)
(* the synchronous SetBrightness that types.go's DDCBackend belongs to.    *)
(* A later section adds the revision that writes to the backend inside     *)
(* SetBrightness and updates the cached percent in place, with its logind  *)
(* proxy and its increment and decrement. The sections after it model the  *)
(* backends themselves: the conversions of sysfs.go and ddc.go in both     *)
(* modes, the DDC/CI frames, the bus backend of ddc.go with its scan, its  *)
(* exclusion of buses and its own debounce, and "dms brightness set".      *)
(*                                                                         *)
(* Every goroutine is a task with a program counter; one action is one     *)
(* step between two points at which another goroutine can interleave       *)
(* (lock acquisitions, blocking I/O, timer expiry).                        *)
(***************************************************************************)
EXTENDS Integers, Sequences, FiniteSets, TLC

\* ------------------------------------------------------------------ bounds

\* Each specification below runs the same actions within its own budget:
\* accepted SetBrightness calls (each creates a timer), Subscribe calls (each
\* creates a channel), replacements of the monitor on the bus, changes of a
\* device's raw value made outside the manager.
DebounceCalls == 2
ScanSwaps == 1
ScanChanges == 1
ScanSubs == 1
CloseCalls == 1
CloseSubs == 2
LiveCalls == 2
LiveSubs == 1
FanoutSubs == 2
FanoutChanges == 18
SnapCalls == 1
SnapReads == 2
SnapSubs == 1
BusCount == 3
CliRuns == 2
StepCalls == 2
IntBits == 10
IndepCalls == 2
InitCalls == 1
CupsEvents == 3
CupsTime == 4
BusPasses == 3
FeedReads == 3
BusTime == 3

SyncTicks == 1

\* ------------------------------------------------------- program constants

\* make(chan State, 16)
ChanCap == 16
\* the printing manager: make(chan struct{}, 1), make(chan CUPSState, 64),
\* and minGap, 100 ms, in ticks of the clock
DirtyCap == 1
CupsChanCap == 64
MinGapTicks == 2
\* scanInterval of the bus backend, 30 s, in ticks of the clock
ScanIntervalTicks == 2

\* --------------------------------------------------------------- the world

SysfsIds == {"backlight:a"}
DDCIds == {"ddc:i2c-1"}
Devices == SysfsIds \cup DDCIds
\* ids a caller may pass: the devices and one id no backend knows
CallIds == Devices \cup {"backlight:zz"}
\* percents a caller may pass: both out-of-range sides and in-range values
CallPercents == {-1, 0, 50, 100, 101}
ClientSeq == <<"c1", "c2", "c3">>
ClientIds == {ClientSeq[i] : i \in 1..Len(ClientSeq)}

\* max_brightness of the filesystem device (cached by scanDevices)
SysfsMax == 100
\* maxima a monitor on the bus may report in its VCP reply
MonitorMaxes == {100, 200}
\* raw value each device shows when the server starts
InitialRaw(d) == 100

\* marks "no value": an absent percent, a write that reached no device
NoVal == 0 - 5

\* ------------------------------------------------------------------- state

\* the goroutines: the two initialisation goroutines, pollLoop, and the
\* callback of every timer SetBrightness creates
InitSysfsTask == <<"init", 1>>
InitDDCTask == <<"init", 2>>
PollTask == <<"poll", 0>>
TimerTask(i) == <<"timer", i>>
InitTasks == {InitSysfsTask, InitDDCTask}
\* timers any specification can create
TimerSlots == 1..(DebounceCalls + CloseCalls + LiveCalls)
\* channels any specification can create
ChanSlots == 1..(ScanSubs + CloseSubs + LiveSubs + FanoutSubs + SnapSubs)
TimerTasks == {TimerTask(i) : i \in TimerSlots}
Tasks == InitTasks \cup {PollTask} \cup TimerTasks

VARIABLES
  hw,              \* [Devices -> raw value]: the brightness attribute / VCP value
  ddcMax,          \* the maximum the monitor on the bus reports
  swaps,           \* monitor replacements so far
  changes,         \* raw-value changes made outside the manager so far
  limit,           \* the run's budget: [calls, subs, swaps, changes]
  sysfsBackend,    \* m.sysfsBackend != nil
  sysfsReady,      \* m.sysfsReady
  ddcBackend,      \* m.ddcBackend != nil
  ddcReady,        \* m.ddcReady
  pc,              \* [Tasks -> position of the goroutine]
  scan,            \* [Tasks -> allDevices local of the goroutine's updateState]
  state,           \* m.state.Devices
  subscribers,     \* m.subscribers: client id -> channel number
  chans,           \* every channel made by Subscribe: its queue, whether it is
                   \* closed, (history) the newest state its subscriber was
                   \* given, first by handleSubscribe's GetState and then by
                   \* sends, and whether the latest send found the queue full
  debouncePending, \* m.debouncePending: device id -> percent
  debounceTimers,  \* m.debounceTimers: device id -> timer number
  timers,          \* every timer made by SetBrightness: its device, the percent its
                   \* callback took, (history) its backend writes and their outcome
  stopChan,        \* "open" | "closed"
  closePc,         \* position of the goroutine that calls Close
  ret,             \* result of the latest SetBrightness call
  batch,           \* history: percents accepted per device since the last take
  issued,          \* history: per device, the percents handed to the backend
  expected,        \* history: per device, the last percent of each taken batch
  lastWritten,     \* history: per device, percent of the latest completed write
  heap,            \* the backing arrays of device slices, where they are tracked
  stateRef,        \* the backing array of m.state.Devices (0: not tracked)
  snaps,           \* the State values handed out: the backing array each one's
                   \* Devices slice points into, and whether GetState returned
                   \* it or NotifySubscribers queued it
  broadcast,       \* m.broadcastPending, m.pendingDeviceID, m.broadcastTimer
  optCalls,        \* SetBrightness calls of the synchronous revision so far
  logind,          \* m.logindBackend and m.logindReady: "none" | "ready"
  ddc,             \* the DDCBackend: its device cache (bus -> dev.max), whether
                   \* lastScan is within scanInterval, its pending percents
                   \* and its debounce timers
  wire,            \* history: the transactions made on /dev/i2c-N nodes
  result,          \* the outcome of the latest backend operation or conversion
  cli,             \* the dms brightness process: position, output, exit status
  cups,            \* the notifier of the printing manager: the dirty channel,
                   \* its pending flag and timer, the printers' state, the
                   \* state last sent, the subscribers' queues, a clock
  i2c,             \* the bus backend step by step: its two locks, lastScan,
                   \* the callers of GetDevices and their read transactions,
                   \* a clock, (history) the probes and the frames written
  feed,            \* updateState and the subscribe handlers step by step:
                   \* (history) the number of readings and of commits, which
                   \* reading the stored state was built from, what each
                   \* goroutine holds, the commits each queue was given;
                   \* each handler's position, its channel, the commit of
                   \* its initial snapshot, the messages it wrote
  sync             \* the mutexes of the manager and of its backends: the
                   \* goroutine inside Lock, the goroutines inside RLock;
                   \* the lock and channel operations each goroutine has
                   \* still to make; which calls were made, the timers
                   \* armed, stopChan and the wait group

vars == <<hw, ddcMax, swaps, changes, limit, sysfsBackend, sysfsReady,
          ddcBackend, ddcReady,
          pc, scan, state,
          subscribers, chans, debouncePending, debounceTimers, timers,
          stopChan, closePc, ret, batch, issued, expected, lastWritten,
          heap, stateRef, snaps, broadcast, optCalls,
          logind, ddc, wire, result, cli, cups, i2c, feed, sync>>

hwVars == <<hw, ddcMax, swaps, changes, limit>>
backendVars == <<sysfsBackend, sysfsReady, ddcBackend, ddcReady>>
subVars == <<subscribers, chans>>
debounceVars == <<debouncePending, debounceTimers, timers>>
histVars == <<batch, issued, expected, lastWritten>>
ioVars == <<logind, ddc, wire, result, cli, cups, i2c, feed, sync>>
snapVars == <<heap, stateRef, snaps, broadcast, optCalls, ioVars>>

\* ----------------------------------------------------------- pure functions

Min(a, b) == IF a < b THEN a ELSE b
Max(a, b) == IF a > b THEN a ELSE b

ClassOf(d) == IF d \in DDCIds THEN "ddc"
              ELSE IF d = "backlight:a" \/ d = "backlight:zz" THEN "backlight"
              ELSE "leds"

\* entry.Name(): the part of the id after the class prefix
NameOf(d) == CASE d = "backlight:a" -> "a"
               [] d = "ddc:i2c-1" -> "i2c-1"
               [] OTHER -> "zz"

\* position of a name in Go's string order, for the names of this world
NameRank(n) == CASE n = "a" -> 0 [] n = "i2c-1" -> 1 [] OTHER -> 2

\* sysfs.go scanDevices: minValue is 1 for backlight, 0 for leds
MinValueOf(d) == IF ClassOf(d) = "leds" THEN 0 ELSE 1

\* SysfsBackend.PercentToValue, linear branch
SysfsPercentToValue(percent, minValue, maxBrightness) ==
  IF percent = 0 THEN minValue
  ELSE LET usableRange == maxBrightness - minValue
           value == minValue + (((percent - 1) * usableRange) \div 99)
       IN  Min(Max(value, minValue), maxBrightness)

\* SysfsBackend.ValueToPercent, linear branch
SysfsValueToPercent(value, minValue, maxBrightness) ==
  IF value <= minValue
  THEN IF minValue = 0 /\ value = 0 THEN 0 ELSE 1
  ELSE LET usableRange == maxBrightness - minValue
       IN  IF usableRange = 0 THEN 100
           ELSE Max(Min(1 + (((value - minValue) * 99) \div usableRange), 100), 1)

\* DDCBackend.percentToValue of the synchronous bus backend
DDCPercentToValue(percent, max) ==
  LET usableRange == max - 1
      value == 1 + ((percent * usableRange) \div 100)
  IN  Min(Max(value, 1), max)

\* DDCBackend.valueToPercent of the synchronous bus backend
DDCValueToPercent(value, max) ==
  IF value <= 1 THEN 1
  ELSE LET usableRange == max - 1
       IN  IF usableRange = 0 THEN 100
           ELSE Max(Min(((value - 1) * 100) \div usableRange, 100), 1)

\* the Device a backend's GetDevices builds from one reading
MakeDevice(d, current, max) ==
  [Class |-> ClassOf(d), ID |-> d, Name |-> NameOf(d), Current |-> current,
   Max |-> max,
   CurrentPercent |-> IF d \in DDCIds
                      THEN DDCValueToPercent(current, max)
                      ELSE SysfsValueToPercent(current, MinValueOf(d), max),
   Backend |-> IF d \in DDCIds THEN "ddc" ELSE "sysfs"]

ClassOrder(c) == CASE c = "backlight" -> 0 [] c = "ddc" -> 1 [] OTHER -> 2

\* the less function of sortDevices
DeviceLess(a, b) ==
  IF ClassOrder(a.Class) # ClassOrder(b.Class)
  THEN ClassOrder(a.Class) < ClassOrder(b.Class)
  ELSE NameRank(a.Name) < NameRank(b.Name)

RECURSIVE InsertSorted(_, _)
InsertSorted(dev, s) ==
  IF s = <<>> THEN <<dev>>
  ELSE IF DeviceLess(dev, Head(s)) THEN <<dev>> \o s
  ELSE <<Head(s)>> \o InsertSorted(dev, Tail(s))

RECURSIVE sortDevices(_)
sortDevices(s) ==
  IF s = <<>> THEN <<>> ELSE InsertSorted(Head(s), sortDevices(Tail(s)))

RECURSIVE SetToSeq(_)
SetToSeq(S) ==
  IF S = {} THEN <<>>
  ELSE LET x == CHOOSE y \in S : TRUE IN <<x>> \o SetToSeq(S \ {x})

IdsOf(devs) == {devs[i].ID : i \in 1..Len(devs)}

\* the entry of a device sequence with the given id (the oldMap lookup)
DevById(devs, id) == devs[CHOOSE i \in 1..Len(devs) : devs[i].ID = id]

\* mutant: a changed maximum goes unnoticed
stateChangedIgnoresMax(old, new) ==
  \/ Len(old) # Len(new)
  \/ \E i \in 1..Len(new) :
       \/ new[i].ID \notin IdsOf(old)
       \/ /\ new[i].ID \in IdsOf(old)
          /\ DevById(old, new[i].ID).Current # new[i].Current

stateChanged(old, new) ==
  \/ Len(old) # Len(new)
  \/ \E i \in 1..Len(new) :
       \/ new[i].ID \notin IdsOf(old)
       \/ /\ new[i].ID \in IdsOf(old)
          /\ \/ DevById(old, new[i].ID).Current # new[i].Current
             \/ DevById(old, new[i].ID).Max # new[i].Max

\* SysfsBackend.GetDevices / DDCBackend.GetDevices: one Device per cached
\* device, with the value the hardware shows now
MaxNow(d) == IF d \in DDCIds THEN ddcMax ELSE SysfsMax
\* mutant: GetDevices answers with the values of its first scan
BackendDevicesCached(ids) ==
  SetToSeq({MakeDevice(d, InitialRaw(d), MaxNow(d)) : d \in ids})

BackendDevices(ids) == SetToSeq({MakeDevice(d, hw[d], MaxNow(d)) : d \in ids})

\* updateState, lines 125-145: the merged and sorted reading of the ready backends
ScanAll ==
  sortDevices(
    (IF sysfsReady /\ sysfsBackend THEN BackendDevices(SysfsIds) ELSE <<>>)
    \o (IF ddcReady /\ ddcBackend THEN BackendDevices(DDCIds) ELSE <<>>))

\* mutant: a full queue makes room by dropping its oldest state
DeliverDropOldest(q, st) ==
  IF Len(q) < ChanCap THEN Append(q, st) ELSE Append(Tail(q), st)

\* NotifySubscribers' select on one channel: send when there is room, else drop
Deliver(q, st) == IF Len(q) < ChanCap THEN Append(q, st) ELSE q

Registered(c) == \E id \in DOMAIN subscribers : subscribers[id] = c

\* NotifySubscribers: the current state offered to every registered channel
NotifiedChansWith(st) ==
  [c \in DOMAIN chans |->
     IF Registered(c)
     THEN [chans[c] EXCEPT !.q = Deliver(@, st),
                           !.last = IF Len(chans[c].q) < ChanCap
                                    THEN <<st>> ELSE @,
                           !.dropped = ~(Len(chans[c].q) < ChanCap)]
     ELSE chans[c]]

NotifiedChans == NotifiedChansWith(state)

\* Manager.SetBrightness, lines 165-190: which backend lists the device
IsSysfs(d) == sysfsBackend /\ d \in SysfsIds
IsDDC(d) == ~IsSysfs(d) /\ ddcBackend /\ d \in DDCIds

\* the value a backend write of percent p puts on device d; NoVal: the
\* backend returns an error before it touches the device
WriteValue(d, p) ==
  IF d \in DDCIds
  THEN IF p < 1 \/ p > 100 THEN NoVal ELSE DDCPercentToValue(p, ddcMax)
  ELSE IF p < 0 \/ p > 100 THEN NoVal
       ELSE SysfsPercentToValue(p, MinValueOf(d), SysfsMax)

\* a Go map: the empty map, a map without one key, a map with one key set
EmptyMap == [x \in {} |-> NoVal]
Drop(f, k) == [x \in DOMAIN f \ {k} |-> f[x]]
Put(f, k, v) == [x \in DOMAIN f \cup {k} |-> IF x = k THEN v ELSE f[x]]

\* ------------------------------------------------------------------- Init

\* raw values the brightness attribute of a device can be set to from outside
\* the manager (another program, the command line, the monitor's own buttons)
OutsideRaw == {50, 100}

\* the first reading of both backends, sorted
FirstReading ==
  sortDevices(SetToSeq({MakeDevice(d, InitialRaw(d), 100) : d \in Devices}))

\* no broadcast timer yet
NoBroadcast == [pending |-> FALSE, deviceID |-> "", timer |-> "none"]

\* the mutexes: three of the Manager, one of the SysfsBackend, two of the
\* DDCBackend in types.go, and the debounceMutex that ddc.go locks in
\* DDCBackend.SetBrightness
Mutexes == {"stateMutex", "subMutex", "debounceMutex", "deviceCacheMutex",
            "devicesMutex", "scanMutex", "ddc.debounceMutex"}

\* the goroutines that take them: pollLoop, a caller of SetBrightness, the
\* function of the manager's timer, the function of the bus backend's
\* timer, a subscribe handler and the caller of Close
Goroutines == {"pollLoop", "setBrightness", "timer", "busTimer",
               "handleSubscribe", "close"}

\* NewDDCBackend before its scan: empty maps, lastScan the zero time; closure
\* is the value of logarithmic held by the function of each timer, and asked
\* records the logarithmic of the latest SetBrightness call on each device
NewDDC == [made |-> FALSE, devices |-> EmptyMap, fresh |-> FALSE,
           pending |-> EmptyMap, timers |-> EmptyMap,
           closure |-> EmptyMap, asked |-> EmptyMap]

\* no logind connection, no bus backend scan, no command run; the printing
\* manager as NewManager leaves it: no subscriber, nothing sent, the notifier
\* waiting; the bus backend as its struct is made: lastScan the zero time,
\* both locks free, no goroutine inside GetDevices
BackendsAtStart ==
  /\ logind = "none"
  /\ ddc = NewDDC
  /\ wire = {}
  /\ result = [op |-> "none"]
  /\ cli = [pc |-> "idle", out |-> "", exit |-> NoVal, wrote |-> FALSE,
            run |-> 1]
  /\ cups = [dirty |-> 0, pending |-> FALSE, raced |-> FALSE,
             timer |-> "none", printers |-> 0, last |-> NoVal,
             queues |-> EmptyMap, now |-> 0, events |-> 0,
             armed |-> 0, armedAt |-> NoVal, flushes |-> 0, dropped |-> 0,
             flush |-> [at |-> NoVal, snap |-> NoVal, prev |-> NoVal,
                        sent |-> 0]]
  /\ i2c = [now |-> 0, lastScan |-> NoVal, scanMutex |-> "free", writer |-> "free",
            readers |-> {}, cache |-> {},
            pc |-> [g \in {"rescan", "request"} |-> "idle"],
            retry |-> [g \in {"rescan", "request"} |-> 0],
            writes |-> [g \in {"rescan", "request"} |-> 0],
            out |-> [g \in {"rescan", "request"} |-> "none"],
            passes |-> 0, probes |-> <<>>]
  /\ feed = [reads |-> 0, commits |-> 0, stored |-> 0,
             held |-> [t \in Tasks |-> 0],
             recv |-> [c \in ChanSlots |-> <<>>],
             hpc |-> [h \in {"h1", "h2"} |-> "idle"],
             own |-> [h \in {"h1", "h2"} |-> 0],
             initial |-> [h \in {"h1", "h2"} |-> 0],
             wrote |-> [h \in {"h1", "h2"} |-> 0]]
  /\ sync = [writer |-> [mu \in Mutexes |-> "free"],
             readers |-> [mu \in Mutexes |-> {}],
             rest |-> [g \in Goroutines |-> <<>>],
             called |-> {}, armed |-> {}, stopped |-> FALSE,
             polling |-> TRUE, ticks |-> 0]

\* NewManager: empty maps, the three goroutines started
Started(budget) ==
  /\ hw = [d \in Devices |-> InitialRaw(d)]
  /\ ddcMax = 100
  /\ swaps = 0
  /\ changes = 0
  /\ limit = budget
  /\ sysfsBackend = FALSE /\ sysfsReady = FALSE
  /\ ddcBackend = FALSE /\ ddcReady = FALSE
  /\ pc = [t \in Tasks |-> IF t \in InitTasks THEN "start"
                           ELSE IF t = PollTask THEN "idle" ELSE "unused"]
  /\ scan = [t \in Tasks |-> <<>>]
  /\ state = <<>>
  /\ subscribers = EmptyMap
  /\ chans = <<>>
  /\ debouncePending = EmptyMap
  /\ debounceTimers = EmptyMap
  /\ timers = <<>>
  /\ stopChan = "open"
  /\ closePc = "idle"
  /\ ret = "none"
  /\ batch = [d \in Devices |-> <<>>]
  /\ issued = [d \in Devices |-> <<>>]
  /\ expected = [d \in Devices |-> <<>>]
  /\ lastWritten = [d \in Devices |-> NoVal]
  /\ heap = <<>> /\ stateRef = 0 /\ snaps = <<>>
  /\ broadcast = NoBroadcast /\ optCalls = 0
  /\ BackendsAtStart

\* The manager once initSysfs and initDDC have both run to their end: both
\* backends assigned and ready, the state holding their first reading.
RunningWith(budget, n, tracked) ==
  /\ hw = [d \in Devices |-> InitialRaw(d)]
  /\ ddcMax = 100
  /\ swaps = 0
  /\ changes = 0
  /\ limit = budget
  /\ sysfsBackend = TRUE /\ sysfsReady = TRUE
  /\ ddcBackend = TRUE /\ ddcReady = TRUE
  /\ pc = [t \in Tasks |-> IF t \in InitTasks THEN "done"
                           ELSE IF t = PollTask THEN "idle" ELSE "unused"]
  /\ scan = [t \in Tasks |-> <<>>]
  /\ state = FirstReading
  /\ subscribers = [id \in {ClientSeq[i] : i \in 1..n} |->
                      CHOOSE i \in 1..n : ClientSeq[i] = id]
  /\ chans = [i \in 1..n |->
                [q |-> <<>>, closed |-> FALSE, dropped |-> FALSE,
                 last |-> <<FirstReading>>]]
  /\ debouncePending = EmptyMap
  /\ debounceTimers = EmptyMap
  /\ timers = <<>>
  /\ stopChan = "open"
  /\ closePc = "idle"
  /\ ret = "none"
  /\ batch = [d \in Devices |-> <<>>]
  /\ issued = [d \in Devices |-> <<>>]
  /\ expected = [d \in Devices |-> <<>>]
  /\ lastWritten = [d \in Devices |-> NoVal]
  /\ heap = (IF tracked THEN <<FirstReading>> ELSE <<>>)
  /\ stateRef = (IF tracked THEN 1 ELSE 0)
  /\ snaps = <<>>
  /\ broadcast = NoBroadcast /\ optCalls = 0
  /\ BackendsAtStart

\* a running manager nobody has subscribed to yet
Running(budget) == RunningWith(budget, 0, FALSE)

\* a running manager with budget.subs subscribers
Serving(budget) == RunningWith(budget, budget.subs, FALSE)

\* ... and with the backing arrays of the device slices tracked
Tracked(budget) == RunningWith(budget, budget.subs, TRUE)

\* --------------------------------------------------------- the environment

\* another monitor is plugged into the same bus: it reports its own maximum
MonitorSwap ==
  /\ swaps < limit.swaps
  /\ \E m \in MonitorMaxes \ {ddcMax} :
       /\ ddcMax' = m
       /\ hw' = [d \in Devices |-> IF d \in DDCIds THEN Min(hw[d], m) ELSE hw[d]]
  /\ swaps' = swaps + 1
  /\ UNCHANGED <<snapVars, changes, limit, backendVars, pc, scan, state, subVars, debounceVars,
                 stopChan, closePc, ret, histVars>>

\* the raw value of a device is changed outside the manager
OutsideChange(d, v) ==
  /\ changes < limit.changes
  /\ v # hw[d]
  /\ hw' = [hw EXCEPT ![d] = v]
  /\ changes' = changes + 1
  /\ UNCHANGED <<snapVars, ddcMax, swaps, limit, backendVars, pc, scan, state, subVars,
                 debounceVars, stopChan, closePc, ret, histVars>>

\* ------------------------------------------------------------- updateState

\* where a goroutine continues when its updateState returns
AfterUpdate(t) == IF t = PollTask THEN "idle" ELSE "done"

\* updateState, lines 125-145: read every ready backend, merge, sort
UpdateRead(t) ==
  /\ pc[t] = "read"
  /\ scan' = [scan EXCEPT ![t] = ScanAll]
  /\ pc' = [pc EXCEPT ![t] = "commit"]
  /\ UNCHANGED <<snapVars, hwVars, backendVars, state, subVars, debounceVars, stopChan,
                 closePc, ret, histVars>>

\* updateState, lines 147-157: under stateMutex, replace the state if it changed
UpdateCommit(t) ==
  /\ pc[t] = "commit"
  /\ IF stateChanged(state, scan[t])
     THEN /\ state' = scan[t]
          /\ pc' = [pc EXCEPT ![t] = "notify"]
     ELSE /\ state' = state
          /\ pc' = [pc EXCEPT ![t] = AfterUpdate(t)]
  /\ scan' = [scan EXCEPT ![t] = <<>>]
  /\ UNCHANGED <<snapVars, hwVars, backendVars, subVars, debounceVars, stopChan,
                 closePc, ret, histVars>>

\* updateState, line 154: NotifySubscribers
UpdateNotify(t) ==
  /\ pc[t] = "notify"
  /\ chans' = NotifiedChans
  /\ pc' = [pc EXCEPT ![t] = AfterUpdate(t)]
  /\ UNCHANGED <<snapVars, hwVars, backendVars, scan, state, subscribers, debounceVars,
                 stopChan, closePc, ret, histVars>>

\* ------------------------------------------------- initSysfs and initDDC

\* initSysfs, lines 30-46: NewSysfsBackend fails (the goroutine returns) or
\* succeeds and m.sysfsBackend is assigned
InitSysfsBackend ==
  /\ pc[InitSysfsTask] = "start"
  /\ \/ /\ pc' = [pc EXCEPT ![InitSysfsTask] = "done"]
        /\ UNCHANGED sysfsBackend
     \/ /\ sysfsBackend' = TRUE
        /\ pc' = [pc EXCEPT ![InitSysfsTask] = "ready"]
  /\ UNCHANGED <<snapVars, hwVars, sysfsReady, ddcBackend, ddcReady, scan, state,
                 subVars, debounceVars, stopChan, closePc, ret, histVars>>

\* initSysfs, line 47
InitSysfsReady ==
  /\ pc[InitSysfsTask] = "ready"
  /\ sysfsReady' = TRUE
  /\ pc' = [pc EXCEPT ![InitSysfsTask] = "read"]
  /\ UNCHANGED <<snapVars, hwVars, sysfsBackend, ddcBackend, ddcReady, scan, state,
                 subVars, debounceVars, stopChan, closePc, ret, histVars>>

\* initDDC, lines 53-59: scanI2CDevices returns no error, m.ddcBackend is assigned
InitDDCBackend ==
  /\ pc[InitDDCTask] = "start"
  /\ ddcBackend' = TRUE
  /\ pc' = [pc EXCEPT ![InitDDCTask] = "ready"]
  /\ UNCHANGED <<snapVars, hwVars, sysfsBackend, sysfsReady, ddcReady, scan, state,
                 subVars, debounceVars, stopChan, closePc, ret, histVars>>

\* initDDC, line 60
InitDDCReady ==
  /\ pc[InitDDCTask] = "ready"
  /\ ddcReady' = TRUE
  /\ pc' = [pc EXCEPT ![InitDDCTask] = "read"]
  /\ UNCHANGED <<snapVars, hwVars, sysfsBackend, sysfsReady, ddcBackend, scan, state,
                 subVars, debounceVars, stopChan, closePc, ret, histVars>>

\* ---------------------------------------------------------------- pollLoop

\* pollLoop, line 76: the ticker case of the select is taken
PollTick ==
  /\ pc[PollTask] = "idle"
  /\ pc' = [pc EXCEPT ![PollTask] = "read"]
  /\ UNCHANGED <<snapVars, hwVars, backendVars, scan, state, subVars, debounceVars,
                 stopChan, closePc, ret, histVars>>

\* pollLoop, line 74: the stopChan case is taken; the deferred wg.Done runs
PollExit ==
  /\ pc[PollTask] = "idle"
  /\ stopChan = "closed"
  /\ pc' = [pc EXCEPT ![PollTask] = "exited"]
  /\ UNCHANGED <<snapVars, hwVars, backendVars, scan, state, subVars, debounceVars,
                 stopChan, closePc, ret, histVars>>

\* ---------------------------------------------------- Manager.SetBrightness

\* mutant: the lower bound of the range check is missing
InRangeNoLowerBound(percent) == percent <= 100

\* SetBrightness, line 161
InRange(percent) == percent >= 0 /\ percent <= 100

\* mutant: a percent that is already pending is kept (first request wins)
RecordPendingKeepFirst(pending, deviceID, percent) ==
  IF deviceID \in DOMAIN pending THEN pending ELSE Put(pending, deviceID, percent)

\* SetBrightness, line 200
RecordPending(pending, deviceID, percent) == Put(pending, deviceID, percent)

\* SetBrightness, lines 202-204: timer.Stop() keeps a timer that has not
\* expired from expiring; it does nothing to one whose callback was started
StopTimer(p, i) ==
  [p EXCEPT ![TimerTask(i)] = IF @ = "armed" THEN "stopped" ELSE @]

SetBrightness(deviceID, percent) ==
  /\ IF ~InRange(percent)
     THEN /\ ret' = "out of range"
          /\ UNCHANGED <<pc, debounceVars, batch>>
     ELSE IF ~IsSysfs(deviceID) /\ ~IsDDC(deviceID)
     THEN /\ ret' = "not found"
          /\ UNCHANGED <<pc, debounceVars, batch>>
     ELSE /\ Len(timers) < limit.calls
          /\ debouncePending' = RecordPending(debouncePending, deviceID, percent)
          /\ LET new == Len(timers) + 1
                 stopped == IF deviceID \in DOMAIN debounceTimers
                            THEN StopTimer(pc, debounceTimers[deviceID])
                            ELSE pc
             IN  /\ pc' = [stopped EXCEPT ![TimerTask(new)] = "armed"]
                 /\ timers' = Append(timers, [dev |-> deviceID, val |-> NoVal,
                                            wrote |-> 0, ok |-> FALSE,
                                            changed |-> FALSE])
                 /\ debounceTimers' = Put(debounceTimers, deviceID, new)
          /\ batch' = [batch EXCEPT ![deviceID] = Append(@, percent)]
          /\ ret' = "ok"
  /\ UNCHANGED <<snapVars, hwVars, backendVars, scan, state, subVars, stopChan, closePc,
                 issued, expected, lastWritten>>

\* ------------------------------------------- the time.AfterFunc callback

\* the timer expires: the runtime starts the callback in its own goroutine
TimerFire(i) ==
  /\ pc[TimerTask(i)] = "armed"
  /\ pc' = [pc EXCEPT ![TimerTask(i)] = "fired"]
  /\ UNCHANGED <<snapVars, hwVars, backendVars, scan, state, subVars, debounceVars,
                 stopChan, closePc, ret, histVars>>

\* callback, lines 207-216: under debounceMutex, take and delete the pending
\* percent of the device; return when there is none
TimerTake(i) ==
  /\ pc[TimerTask(i)] = "fired"
  /\ LET d == timers[i].dev IN
       IF d \in DOMAIN debouncePending
       THEN /\ timers' = [timers EXCEPT ![i].val = debouncePending[d]]
            /\ debouncePending' = Drop(debouncePending, d)
            /\ pc' = [pc EXCEPT ![TimerTask(i)] = "writing"]
            /\ issued' = [issued EXCEPT ![d] = Append(@, debouncePending[d])]
            /\ expected' = [expected EXCEPT ![d] =
                 Append(@, IF batch[d] = <<>> THEN NoVal
                           ELSE batch[d][Len(batch[d])])]
            /\ batch' = [batch EXCEPT ![d] = <<>>]
       ELSE /\ pc' = [pc EXCEPT ![TimerTask(i)] = "done"]
            /\ UNCHANGED <<timers, debouncePending, issued, expected, batch>>
  /\ UNCHANGED <<snapVars, hwVars, backendVars, scan, state, subVars, debounceTimers,
                 stopChan, closePc, ret, lastWritten>>

\* callback, lines 218-227: the backend's SetBrightness. The backend returns
\* an error (a percent it rejects, an I/O error) and the device keeps its
\* value, or the raw value reaches the device. The error is only logged.
TimerWrite(i) ==
  /\ pc[TimerTask(i)] = "writing"
  /\ LET d == timers[i].dev
         v == WriteValue(d, timers[i].val)
     IN  \/ /\ v # NoVal
            /\ hw' = [hw EXCEPT ![d] = v]
            /\ lastWritten' = [lastWritten EXCEPT ![d] = timers[i].val]
            /\ timers' = [timers EXCEPT ![i].wrote = @ + 1, ![i].ok = TRUE,
                                        ![i].changed = (v # hw[d])]
         \/ /\ UNCHANGED <<hw, lastWritten>>
            /\ timers' = [timers EXCEPT ![i].wrote = @ + 1]
  /\ pc' = [pc EXCEPT ![TimerTask(i)] = "read"]
  /\ UNCHANGED <<snapVars, ddcMax, swaps, changes, limit, backendVars, scan, state,
                 subVars, debouncePending, debounceTimers, stopChan, closePc,
                 ret, batch, issued, expected>>

\* ------------------------------------------------ the subscriber registry

\* Manager.Subscribe: a new channel replaces whatever the id was mapped to
Subscribe(id) ==
  /\ Len(chans) < limit.subs
  /\ chans' = Append(chans, [q |-> <<>>, closed |-> FALSE, last |-> <<state>>,
                             dropped |-> FALSE])
  /\ subscribers' = Put(subscribers, id, Len(chans) + 1)
  /\ UNCHANGED <<snapVars, hwVars, backendVars, pc, scan, state, debounceVars, stopChan,
                 closePc, ret, histVars>>

\* Manager.Unsubscribe: close and delete the id's channel, if it has one
Unsubscribe(id) ==
  /\ id \in DOMAIN subscribers
  /\ chans' = [chans EXCEPT ![subscribers[id]].closed = TRUE]
  /\ subscribers' = Drop(subscribers, id)
  /\ UNCHANGED <<snapVars, hwVars, backendVars, pc, scan, state, debounceVars, stopChan,
                 closePc, ret, histVars>>

\* handleSubscribe, line 139: the handler takes the next state off its channel
Receive(c) ==
  /\ c \in DOMAIN chans
  /\ chans[c].q # <<>>
  /\ chans' = [chans EXCEPT ![c].q = Tail(@)]
  /\ UNCHANGED <<snapVars, hwVars, backendVars, pc, scan, state, subscribers,
                 debounceVars, stopChan, closePc, ret, histVars>>

\* ------------------------------------------------------------ Manager.Close

\* Close, line 151
CloseStopChan ==
  /\ closePc = "idle"
  /\ stopChan' = "closed"
  /\ closePc' = "wait"
  /\ UNCHANGED <<snapVars, hwVars, backendVars, pc, scan, state, subVars, debounceVars,
                 ret, histVars>>

\* Close, line 152: wg.Wait returns once pollLoop has called wg.Done
CloseWait ==
  /\ closePc = "wait"
  /\ pc[PollTask] = "exited"
  /\ closePc' = "debounce"
  /\ UNCHANGED <<snapVars, hwVars, backendVars, pc, scan, state, subVars, debounceVars,
                 stopChan, ret, histVars>>

\* Close, lines 155-157: Stop every timer of the table
StopAll(p, table) ==
  [t \in Tasks |->
     IF p[t] = "armed" /\ \E d \in DOMAIN table : t = TimerTask(table[d])
     THEN "stopped" ELSE p[t]]

\* Close, lines 154-160
CloseDebounce ==
  /\ closePc = "debounce"
  /\ pc' = StopAll(pc, debounceTimers)
  /\ debounceTimers' = EmptyMap
  /\ debouncePending' = EmptyMap
  /\ batch' = [d \in Devices |-> <<>>]
  /\ closePc' = "subs"
  /\ UNCHANGED <<snapVars, hwVars, backendVars, scan, state, subVars, timers, stopChan,
                 ret, issued, expected, lastWritten>>

\* Close, lines 163-165: close every registered channel
CloseAll(cs, registry) ==
  [c \in DOMAIN cs |->
     IF \E id \in DOMAIN registry : registry[id] = c
     THEN [cs[c] EXCEPT !.closed = TRUE] ELSE cs[c]]

\* Close, lines 162-172: the registry is emptied, DDCBackend.Close does
\* nothing, Close returns
CloseSubscribers ==
  /\ closePc = "subs"
  /\ chans' = CloseAll(chans, subscribers)
  /\ subscribers' = EmptyMap
  /\ closePc' = "returned"
  /\ UNCHANGED <<snapVars, hwVars, backendVars, pc, scan, state, debounceVars, stopChan,
                 ret, batch, issued, expected, lastWritten>>

\* ------------------------------------- snapshots and the synchronous revision
\* The revision of the manager that writes to the backend inside SetBrightness
\* and updates the cached percent in place. A State is a struct holding a
\* slice: copying the struct copies the slice header, not its backing array.

\* GetState: "return m.state" hands out the slice header of m.state.Devices
GetState ==
  /\ Cardinality({k \in 1..Len(snaps) : snaps[k].kind = "returned"}) < limit.reads
  /\ snaps' = Append(snaps, [ref |-> stateRef, kind |-> "returned"])
  /\ UNCHANGED <<hwVars, backendVars, pc, scan, state, subVars, debounceVars,
                 stopChan, closePc, ret, histVars, heap, stateRef, broadcast,
                 optCalls, ioVars>>

\* the percent a caller writes into a State it was given
CallerPercents == {7}

\* the holder of the k-th State GetState returned assigns to the
\* CurrentPercent of its j-th device
CallerMutate(k, j, p) ==
  /\ k \in 1..Len(snaps) /\ snaps[k].kind = "returned"
  /\ j \in 1..Len(heap[snaps[k].ref])
  /\ heap[snaps[k].ref][j].CurrentPercent # p
  /\ heap' = [heap EXCEPT ![snaps[k].ref][j].CurrentPercent = p]
  /\ state' = heap'[stateRef]
  /\ UNCHANGED <<hwVars, backendVars, pc, scan, subVars, debounceVars,
                 stopChan, closePc, ret, histVars, stateRef, snaps, broadcast,
                 optCalls, ioVars>>

\* NotifySubscribers: "state := m.state" and a send of that copy to every
\* registered channel with room; each queued copy points into the array
QueuedSnaps(ref) ==
  LET RECURSIVE Build(_)
      Build(c) ==
        IF c = 0 THEN <<>>
        ELSE Build(c - 1) \o
             (IF Registered(c) /\ Len(chans[c].q) < ChanCap
              THEN <<[ref |-> ref, kind |-> "queued"]>> ELSE <<>>)
  IN  Build(Len(chans))

\* Rescan: updateState reads the backends into a new slice and, when the
\* reading differs from the state, makes it the state and broadcasts it
Rescan ==
  /\ LET new == ScanAll IN
       IF stateChanged(state, new)
       THEN /\ heap' = Append(heap, new)
            /\ stateRef' = Len(heap) + 1
            /\ state' = new
            /\ chans' = NotifiedChansWith(new)
            /\ snaps' = snaps \o QueuedSnaps(Len(heap) + 1)
       ELSE UNCHANGED <<heap, stateRef, state, chans, snaps>>
  /\ UNCHANGED <<hwVars, backendVars, pc, scan, subscribers, debounceVars,
                 stopChan, closePc, ret, histVars, broadcast, optCalls, ioVars>>

\* position of the device in a device sequence, 0 when it is not there
IndexOf(st, deviceID) ==
  IF \E k \in 1..Len(st) : st[k].ID = deviceID
  THEN CHOOSE k \in 1..Len(st) : st[k].ID = deviceID
  ELSE 0

\* SetBrightness of the synchronous revision: range check, lookup in the
\* state, the cached percent overwritten in place, the backend write, and
\* debouncedBroadcast when the write succeeded
SetBrightnessSync(deviceID, percent) ==
  /\ IF ~InRange(percent)
     THEN /\ ret' = "out of range"
          /\ UNCHANGED <<hw, heap, state, broadcast, optCalls>>
     ELSE IF IndexOf(state, deviceID) = 0
     THEN /\ ret' = "not found"
          /\ UNCHANGED <<hw, heap, state, broadcast, optCalls>>
     ELSE /\ optCalls < limit.calls
          /\ optCalls' = optCalls + 1
          /\ heap' = [heap EXCEPT
                        ![stateRef][IndexOf(state, deviceID)].CurrentPercent =
                          percent]
          /\ state' = heap'[stateRef]
          /\ LET v == WriteValue(deviceID, percent) IN
               \/ /\ v # NoVal
                  /\ hw' = [hw EXCEPT ![deviceID] = v]
                  /\ broadcast' = [pending |-> TRUE, deviceID |-> deviceID,
                                   timer |-> "armed"]
                  /\ ret' = "ok"
               \/ /\ ret' = "failed"
                  /\ UNCHANGED <<hw, broadcast>>
  /\ UNCHANGED <<ddcMax, swaps, changes, limit, backendVars, pc, scan, subVars,
                 debounceVars, stopChan, closePc, histVars, stateRef, snaps,
                 logind, ddc, wire, cli, cups, i2c, feed, sync>>

\* the callback of the broadcast timer: it clears the pending broadcast and
\* calls broadcastDeviceUpdate, which copies the device out of the state and
\* offers it to m.updateSubscribers; nothing ever registers there
BroadcastFire ==
  /\ broadcast.timer = "armed"
  /\ broadcast' = [pending |-> FALSE, deviceID |-> "", timer |-> "done"]
  /\ UNCHANGED <<hwVars, backendVars, pc, scan, state, subVars, debounceVars,
                 stopChan, closePc, ret, histVars, heap, stateRef, snaps,
                 optCalls, ioVars>>

\* ------------------------------------------ sysfs writes and the logind proxy
\* every variable of the manager except the raw values of the hardware
managerVars == <<ddcMax, swaps, changes, limit, backendVars, pc, scan, state,
                 subVars, debounceVars, stopChan, closePc, ret, histVars,
                 heap, stateRef, snaps, broadcast, optCalls>>

\* initLogind: NewLogindBackend fails and the manager stays without a proxy,
\* or m.logindBackend and m.logindReady are set
InitLogind ==
  /\ logind = "none"
  /\ logind' \in {"unavailable", "ready"}
  /\ UNCHANGED <<managerVars, cups, i2c, feed, sync, hw, ddc, wire, result, cli>>

\* SysfsBackend.SetBrightness: device lookup, range check, the raw value
\* written to the brightness file
SysfsSetBrightness(id, percent, file) ==
  IF id \notin SysfsIds THEN [direct |-> "none", err |-> "device not found"]
  ELSE IF percent < 0 \/ percent > 100
  THEN [direct |-> "none", err |-> "percent out of range"]
  ELSE IF file = "ok" THEN [direct |-> "ok", err |-> ""]
  ELSE [direct |-> "failed", err |-> "write brightness"]

\* on a failed call to the proxy the error is returned and no file is written
setViaSysfsNoFallback(deviceID, percent, present, call, file) ==
  IF deviceID \notin SysfsIds
  THEN [proxy |-> "none", direct |-> "none", err |-> "device not found"]
  ELSE IF ~present
  THEN [proxy |-> "absent"] @@ SysfsSetBrightness(deviceID, percent, file)
  ELSE IF call = "failed"
  THEN [proxy |-> "failed", direct |-> "none", err |-> "logind"]
  ELSE [proxy |-> "ok", direct |-> "none", err |-> ""]

\* Manager.setViaSysfsWithLogind: the device looked up, the proxy called when
\* there is one, the direct write when there is none or its call failed
setViaSysfsWithLogind(deviceID, percent, present, call, file) ==
  IF deviceID \notin SysfsIds
  THEN [proxy |-> "none", direct |-> "none", err |-> "device not found"]
  ELSE IF ~present
  THEN [proxy |-> "absent"] @@ SysfsSetBrightness(deviceID, percent, file)
  ELSE IF call = "failed"
  THEN [proxy |-> "failed"] @@ SysfsSetBrightness(deviceID, percent, file)
  ELSE [proxy |-> "ok", direct |-> "none", err |-> ""]

\* the backend write of Manager.SetBrightness for a device that is not on the
\* bus: through setViaSysfsWithLogind when the proxy is ready, else directly
SysfsWrite(deviceID, percent) ==
  /\ deviceID \in IdsOf(state) /\ ClassOf(deviceID) # "ddc"
  /\ InRange(percent)
  /\ \E call \in {"ok", "failed"}, file \in {"ok", "failed"} :
       LET value == SysfsPercentToValue(percent, MinValueOf(deviceID),
                                        SysfsMax)
           r == IF logind = "ready"
                THEN setViaSysfsWithLogind(deviceID, percent, TRUE, call, file)
                ELSE [proxy |-> "absent"] @@
                     SysfsSetBrightness(deviceID, percent, file)
       IN  /\ hw' = IF r.proxy = "ok" \/ r.direct = "ok"
                    THEN [hw EXCEPT ![deviceID] = value] ELSE hw
           /\ result' = [op |-> "sysfsWrite", dev |-> deviceID,
                         percent |-> percent, value |-> value,
                         ready |-> (logind = "ready")] @@ r
  /\ UNCHANGED <<managerVars, cups, i2c, feed, sync, logind, ddc, wire, cli>>

\* ------------------------------------ the conversions of sysfs.go and ddc.go
\* Go's integer division, which truncates toward zero
Quo(a, b) == IF a >= 0 THEN a \div b ELSE 0 - ((0 - a) \div b)

\* int(math.Round(math.Pow(float64(percent)/100.0, 0.5) * float64(range))):
\* the product rounded half away from zero. In float64 the product equals
\* the exact one rounded, except that the square root of 0.49 is the double
\* just below 0.7, so that a product that would end in .5 can come out
\* below it and round down.
RoundSqrt(percent, range) ==
  LET RECURSIVE Search(_, _, _)
      \* the largest k in lo..hi with k * k <= n
      Search(n, lo, hi) ==
        IF lo = hi THEN lo
        ELSE LET mid == (lo + hi + 1) \div 2
             IN  IF mid * mid <= n THEN Search(n, mid, hi)
                 ELSE Search(n, lo, mid - 1)
      RECURSIVE Up(_, _)
      \* the largest power of two from e on that is at most n
      Up(n, e) == IF 2 * e <= n THEN Up(n, 2 * e) ELSE e
      r == IF range < 0 THEN 0 - range ELSE range
      n25 == (percent * r * r) \div 25
      exact == (Search(n25, 0, Min(n25, 46340)) + 1) \div 2
      below == /\ percent = 49 /\ r % 10 = 5
               /\ 2 * r > 5 * Up((7 * r) \div 10, 1)
      k == IF below THEN exact - 1 ELSE exact
  IN  IF range < 0 THEN 0 - k ELSE k

\* int(math.Round(math.Pow(float64(linearPercent)/100.0, 2.0) * 100.0))
RoundSquare(linearPercent) == (linearPercent * linearPercent + 50) \div 100

\* PercentToValue without the floor at minValue
PercentToValueNoFloor(percent, minValue, maxBrightness, logarithmic) ==
  IF percent = 0 THEN 0
  ELSE LET usableRange == maxBrightness
           value == IF logarithmic THEN RoundSqrt(percent, usableRange)
                    ELSE Quo((percent - 1) * usableRange, 99)
       IN  IF value > maxBrightness THEN maxBrightness ELSE value

\* SysfsBackend.PercentToValue
PercentToValue(percent, minValue, maxBrightness, logarithmic) ==
  IF percent = 0 THEN minValue
  ELSE LET usableRange == maxBrightness - minValue
           value == IF logarithmic
                    THEN minValue + RoundSqrt(percent, usableRange)
                    ELSE minValue + Quo((percent - 1) * usableRange, 99)
           floored == IF value < minValue THEN minValue ELSE value
       IN  IF floored > maxBrightness THEN maxBrightness ELSE floored

\* SysfsBackend.ValueToPercent
ValueToPercent(value, minValue, maxBrightness, logarithmic) ==
  IF value <= minValue
  THEN IF minValue = 0 /\ value = 0 THEN 0 ELSE 1
  ELSE LET usableRange == maxBrightness - minValue
           linearPercent == 1 + Quo((value - minValue) * 99, usableRange)
           percent == IF logarithmic THEN RoundSquare(linearPercent)
                      ELSE linearPercent
           capped == IF percent > 100 THEN 100 ELSE percent
       IN  IF usableRange = 0 THEN 100
           ELSE IF capped < 1 THEN 1 ELSE capped

\* the proportional scheme in place of the one anchored at percent 1
percentToValueProportional(percent, max, logarithmic) ==
  DDCPercentToValue(percent, max)

\* DDCBackend.percentToValue: minValue is the constant 1
percentToValue(percent, max, logarithmic) ==
  IF percent = 0 THEN 1
  ELSE LET usableRange == max - 1
           value == IF logarithmic THEN 1 + RoundSqrt(percent, usableRange)
                    ELSE 1 + Quo((percent - 1) * usableRange, 99)
           floored == IF value < 1 THEN 1 ELSE value
       IN  IF floored > max THEN max ELSE floored

\* DDCBackend.valueToPercent
valueToPercent(value, max, logarithmic) ==
  IF max = 0 THEN 0
  ELSE IF value <= 1 THEN 1
  ELSE LET usableRange == max - 1
           linearPercent == 1 + Quo((value - 1) * 99, usableRange)
           percent == IF logarithmic THEN RoundSquare(linearPercent)
                      ELSE linearPercent
           capped == IF percent > 100 THEN 100 ELSE percent
       IN  IF usableRange = 0 THEN 100
           ELSE IF capped < 1 THEN 1 ELSE capped

\* a percent converted for a sysfs device of the given maximum and back, as
\* SetBrightness and then GetDevices convert it
ConvertSysfs(id, maxBrightness, percent, logarithmic) ==
  /\ LET minValue == MinValueOf(id)
         value == PercentToValue(percent, minValue, maxBrightness, logarithmic)
     IN  result' = [op |-> "sysfsConvert", class |-> ClassOf(id),
                    minValue |-> minValue, max |-> maxBrightness,
                    percent |-> percent, logarithmic |-> logarithmic,
                    value |-> value,
                    back |-> ValueToPercent(value, minValue, maxBrightness,
                                            logarithmic)]
  /\ UNCHANGED <<managerVars, cups, i2c, feed, sync, hw, logind, ddc, wire, cli>>

\* a percent converted for a monitor of the given maximum and back
ConvertDDC(max, percent, logarithmic) ==
  /\ LET value == percentToValue(percent, max, logarithmic)
     IN  result' = [op |-> "ddcConvert", class |-> "ddc", minValue |-> 1,
                    max |-> max, percent |-> percent,
                    logarithmic |-> logarithmic, value |-> value,
                    back |-> valueToPercent(value, max, logarithmic)]
  /\ UNCHANGED <<managerVars, cups, i2c, feed, sync, hw, logind, ddc, wire, cli>>

\* a raw value converted to a percent as SysfsBackend.GetDevices converts the
\* content of the brightness file, for any integer the file can hold
ReverseSysfs(id, maxBrightness, value, logarithmic) ==
  /\ result' = [op |-> "sysfsPercent", class |-> ClassOf(id),
                minValue |-> MinValueOf(id), max |-> maxBrightness,
                value |-> value, logarithmic |-> logarithmic,
                percent |-> ValueToPercent(value, MinValueOf(id),
                                           maxBrightness, logarithmic)]
  /\ UNCHANGED <<managerVars, cups, i2c, feed, sync, hw, logind, ddc, wire, cli>>

\* a raw value converted as DDCBackend.GetDevices converts the current value
\* of the monitor's reply, for any maximum the reply can hold
ReverseDDC(max, value, logarithmic) ==
  /\ result' = [op |-> "ddcPercent", class |-> "ddc", minValue |-> 1,
                max |-> max, value |-> value, logarithmic |-> logarithmic,
                percent |-> valueToPercent(value, max, logarithmic)]
  /\ UNCHANGED <<managerVars, cups, i2c, feed, sync, hw, logind, ddc, wire, cli>>

\* ------------------------------------------------- the DDC/CI frames of ddc.go
\* the constants of ddc.go
DDCCI_VCP_GET == 1
DDCCI_VCP_SET == 3
VCP_BRIGHTNESS == 16
DDC_SOURCE_ADDR == 81

\* a ^ b on bytes
Xor8(a, b) ==
  LET RECURSIVE X(_, _, _)
      X(x, y, bits) ==
        IF bits = 0 THEN 0
        ELSE ((x + y) % 2) + 2 * X(x \div 2, y \div 2, bits - 1)
  IN  X(a, b, 8)

\* a | b on bytes
Or8(a, b) ==
  LET RECURSIVE O(_, _, _)
      O(x, y, bits) ==
        IF bits = 0 THEN 0
        ELSE (IF x % 2 = 1 \/ y % 2 = 1 THEN 1 ELSE 0)
             + 2 * O(x \div 2, y \div 2, bits - 1)
  IN  O(a, b, 8)

\* the sum of the payload's bytes modulo 256 in place of the XOR
ddcciChecksumAdditive(payload) ==
  LET RECURSIVE Sum(_)
      Sum(k) == IF k = 0 THEN 110 ELSE (Sum(k - 1) + payload[k]) % 256
  IN  Sum(Len(payload))

\* ddcciChecksum: 0x6E XORed with every byte of the payload
ddcciChecksum(payload) ==
  LET RECURSIVE Sum(_)
      Sum(k) == IF k = 0 THEN 110 ELSE Xor8(Sum(k - 1), payload[k])
  IN  Sum(Len(payload))

\* the payload getVCPFeature and setVCPFeature write: source address, the
\* length of the data with bit 7 set, the data, the checksum of all of it
Framed(data) ==
  LET payload == <<DDC_SOURCE_ADDR, Or8(Len(data) % 256, 128)>> \o data
  IN  Append(payload, ddcciChecksum(payload))

\* the frame getVCPFeature writes
GetFrame(vcp) == Framed(<<DDCCI_VCP_GET, vcp>>)

\* the frame setVCPFeature writes: byte(value >> 8), byte(value & 0xFF)
SetFrame(vcp, value) ==
  Framed(<<DDCCI_VCP_SET, vcp, (value \div 256) % 256, value % 256>>)

\* "response := make([]byte, 12)" after a read of n bytes of the reply
ReadInto12(reply, n) ==
  [k \in 1..12 |-> IF k <= n /\ k <= Len(reply) THEN reply[k] ELSE 0]

\* the maximum and the current value taken from bytes 5..8 of the response
ParseReplyAt5(response, n, vcp) ==
  IF n < 8 THEN [err |-> "read i2c"]
  ELSE IF response[1] # 110 \/ response[3] # 2
  THEN [err |-> "invalid ddc response"]
  ELSE IF response[4] # 0 THEN [err |-> "vcp feature not supported"]
  ELSE IF response[5] # vcp THEN [err |-> "vcp mismatch"]
  ELSE [err |-> "", vcp |-> vcp,
        max |-> response[6] * 256 + response[7],
        current |-> response[8] * 256 + response[9]]

\* getVCPFeature from the read of the response on: at least 8 bytes read,
\* response[0] and response[2], the result code, the echoed feature code,
\* then the maximum from response[6..7] and the current value from
\* response[8..9], both big-endian
ParseReply(response, n, vcp) ==
  IF n < 8 THEN [err |-> "read i2c"]
  ELSE IF response[1] # 110 \/ response[3] # 2
  THEN [err |-> "invalid ddc response"]
  ELSE IF response[4] # 0 THEN [err |-> "vcp feature not supported"]
  ELSE IF response[5] # vcp THEN [err |-> "vcp mismatch"]
  ELSE [err |-> "", vcp |-> vcp,
        max |-> response[7] * 256 + response[8],
        current |-> response[9] * 256 + response[10]]

\* a monitor's feature reply: source marker, length, opcode, result code,
\* the feature code it answers for, a type byte, maximum and current value
\* high byte first, the checksum with the bits of flip inverted, and the
\* byte after the frame
MonitorReply(sent) ==
  LET body == <<sent.lead, 136, sent.opcode, sent.rc, sent.echo, 0,
                sent.max \div 256, sent.max % 256,
                sent.current \div 256, sent.current % 256>>
  IN  body \o <<Xor8(ddcciChecksum(body), sent.flip), 0>>

\* the replies of this world
SentReplies ==
  [lead : {110, 111}, opcode : {2, 3}, rc : {0, 1}, echo : {16, 18},
   max : {100, 4660}, current : {50, 300}, flip : {0, 1, 128}]

\* getVCPFeature on an open node: the GET frame written, n bytes of the
\* monitor's reply read into the 12-byte response, the response validated
\* and decoded
getVCPFeature(vcp, sent, n) ==
  /\ result' = [op |-> "getVCP", vcp |-> vcp, sent |-> sent, n |-> n,
                frame |-> GetFrame(vcp),
                response |-> ReadInto12(MonitorReply(sent), n)] @@
               ParseReply(ReadInto12(MonitorReply(sent), n), n, vcp)
  /\ UNCHANGED <<managerVars, cups, i2c, feed, sync, hw, logind, ddc, wire, cli>>

\* setVCPFeature on an open node: the SET frame written
setVCPFeature(vcp, value) ==
  /\ result' = [op |-> "setVCP", vcp |-> vcp, value |-> value,
                frame |-> SetFrame(vcp, value)]
  /\ UNCHANGED <<managerVars, cups, i2c, feed, sync, hw, logind, ddc, wire, cli>>

\* ----------------------------------------------------- the bus backend of ddc.go
\* the /dev/i2c-N nodes of this world are N = 0 .. BusCount - 1; all exist
Buses == 0..(BusCount - 1)

\* the buses isIgnorableI2CBus names: here bus 0, an SMBus or GPU-internal bus
IgnorableBuses == {0}

\* isIgnorableI2CBus
isIgnorableI2CBus(i) == i \in IgnorableBuses

\* open, I2C_SLAVE ioctl, read and write on the node of a bus
BusOps(i) == {<<i, "open">>, <<i, "addr">>, <<i, "read">>, <<i, "write">>}

\* what a monitor can answer to a brightness query: nothing in time, or a
\* feature reply with its maximum and its current value
MonitorAnswers ==
  {[err |-> "poll timeout"]} \cup
  {[err |-> "", max |-> m, current |-> c] : m \in {0, 100}, c \in {50}}

\* the scan of a backend that probes every node that exists
scanEveryBus(b, responding) ==
  IF b.fresh THEN [ddc |-> b, ops |-> {}]
  ELSE [ddc |-> [b EXCEPT !.devices = [i \in Buses \cap responding |-> 0],
                          !.fresh = TRUE],
        ops |-> UNION {BusOps(i) : i \in Buses}]

\* scanI2CDevices: nothing within scanInterval of the last scan; else the
\* cache is rebuilt from the nodes that are not ignorable and answer the
\* probe at address 0x37, each with dev.max still 0
scanI2CDevices(b, responding) ==
  IF b.fresh THEN [ddc |-> b, ops |-> {}]
  ELSE LET probed == {i \in Buses : ~isIgnorableI2CBus(i)}
       IN  [ddc |-> [b EXCEPT !.devices = [i \in probed \cap responding |-> 0],
                               !.fresh = TRUE],
            ops |-> UNION {BusOps(i) : i \in probed}]

\* NewDDCBackend: the struct and the first scan
NewDDCBackend ==
  /\ ~ddc.made
  /\ \E responding \in SUBSET Buses :
       LET sc == scanI2CDevices([NewDDC EXCEPT !.made = TRUE], responding)
       IN  /\ ddc' = sc.ddc
           /\ wire' = wire \cup sc.ops
  /\ result' = [op |-> "newDDC"]
  /\ UNCHANGED <<managerVars, cups, i2c, feed, sync, hw, logind, cli>>

\* scanInterval passes since the last scan
ScanIntervalPasses ==
  /\ ddc.made /\ ddc.fresh
  /\ ddc' = [ddc EXCEPT !.fresh = FALSE]
  /\ UNCHANGED <<managerVars, cups, i2c, feed, sync, hw, logind, wire, result, cli>>

\* DDCBackend.GetDevices: the scan, then for every cached device its node
\* opened and addressed and the brightness feature read, with one retry; a
\* device that gives no capability is left out, a dev.max of 0 takes the
\* reported maximum
DDCGetDevices ==
  /\ ddc.made
  /\ \E responding \in SUBSET Buses :
       LET sc == scanI2CDevices(ddc, responding)
           cached == DOMAIN sc.ddc.devices
       IN  \E answer \in [cached -> MonitorAnswers] :
             LET read == {i \in cached : answer[i].err = ""}
             IN  /\ ddc' = [sc.ddc EXCEPT !.devices =
                              [i \in cached |->
                                 IF i \in read /\ sc.ddc.devices[i] = 0
                                 THEN answer[i].max
                                 ELSE sc.ddc.devices[i]]]
                 /\ wire' = wire \cup sc.ops \cup UNION {BusOps(i) : i \in cached}
                 /\ result' = [op |-> "ddcGetDevices",
                               devices |->
                                 [i \in read |->
                                    [Current |-> answer[i].current,
                                     Max |-> answer[i].max,
                                     CurrentPercent |->
                                       valueToPercent(answer[i].current,
                                                      answer[i].max, FALSE)]]]
  /\ UNCHANGED <<managerVars, cups, i2c, feed, sync, hw, logind, cli>>

\* setBrightnessImmediate on backend b: the device looked up in the cache,
\* its node opened and addressed, the maximum asked of the monitor when
\* dev.max is still 0, and the SET frame with percentToValue's value written
setBrightnessImmediateOn(b, bus, percent, logarithmic, answer) ==
  LET call == [op |-> "ddcSet", bus |-> bus, percent |-> percent]
      known == b.devices[bus] # 0
      max == IF known THEN b.devices[bus] ELSE answer.max
      value == percentToValue(percent, max, logarithmic)
  IN  IF bus \notin DOMAIN b.devices
      THEN [ddc |-> b, ops |-> {},
            result |-> call @@ [err |-> "device not found"]]
      ELSE IF ~known /\ answer.err # ""
      THEN [ddc |-> b, ops |-> BusOps(bus),
            result |-> call @@ [err |-> "get current capability"]]
      ELSE [ddc |-> [b EXCEPT !.devices[bus] = max], ops |-> BusOps(bus),
            result |-> call @@
                       [err |-> "", max |-> max, value |-> value,
                        frame |-> SetFrame(VCP_BRIGHTNESS, value)]]

\* a call of setBrightnessImmediate
setBrightnessImmediate(bus, percent, logarithmic) ==
  /\ ddc.made
  /\ \E answer \in MonitorAnswers :
       LET done == setBrightnessImmediateOn(ddc, bus, percent, logarithmic,
                                            answer)
       IN  /\ ddc' = done.ddc
           /\ wire' = wire \cup done.ops
           /\ result' = done.result
  /\ UNCHANGED <<managerVars, cups, i2c, feed, sync, hw, logind, cli>>

\* DDCBackend.SetBrightness: the device looked up, the range checked, the
\* percent recorded as pending and the 200 ms timer started or reset; nil is
\* returned while the write is still to come
DDCSetBrightness(b, bus, percent) ==
  IF bus \notin DOMAIN b.devices THEN [ddc |-> b, err |-> "device not found"]
  ELSE IF percent < 0 \/ percent > 100
  THEN [ddc |-> b, err |-> "percent out of range"]
  ELSE [ddc |-> [b EXCEPT !.pending = Put(b.pending, bus, percent),
                          !.timers = Put(b.timers, bus, "armed")],
        err |-> ""]

\* the logarithmic read by the function of the timer of a device: time.AfterFunc
\* is given the function only when the device has no timer yet, and the
\* function holds the arguments of that call; timer.Reset keeps the function
capturedMode(b, bus, logarithmic) ==
  IF bus \in DOMAIN b.timers THEN b.closure[bus] ELSE logarithmic

\* a call of DDCBackend.SetBrightness with its mapping mode on a backend that
\* is made
BackendSetBrightness(bus, percent, logarithmic) ==
  /\ ddc.made
  /\ LET set == DDCSetBrightness(ddc, bus, percent)
     IN  /\ ddc' = IF set.err # "" THEN ddc
                   ELSE [set.ddc EXCEPT
                           !.closure = Put(ddc.closure, bus,
                                           capturedMode(ddc, bus, logarithmic)),
                           !.asked = Put(ddc.asked, bus, logarithmic)]
         /\ result' = [op |-> "ddcDebounce", bus |-> bus, percent |-> percent,
                       logarithmic |-> logarithmic, err |-> set.err]
  /\ UNCHANGED <<managerVars, cups, i2c, feed, sync, hw, logind, wire, cli>>

\* the function of the timer of a device, 200 ms after the last start or
\* reset: the pending percent taken under debounceMutex, nothing more when
\* there is none, else setBrightnessImmediate with the logarithmic it holds;
\* the result also records the percent and the mode of the latest call
BackendTimerFires(bus) ==
  /\ ddc.made
  /\ bus \in DOMAIN ddc.timers /\ ddc.timers[bus] = "armed"
  /\ LET fired == [ddc EXCEPT !.timers = Put(ddc.timers, bus, "fired")]
     IN  IF bus \notin DOMAIN ddc.pending
         THEN /\ ddc' = fired
              /\ result' = [op |-> "ddcTimer", bus |-> bus, err |-> "none pending"]
              /\ UNCHANGED wire
         ELSE \E answer \in MonitorAnswers :
                LET taken == [fired EXCEPT !.pending = Drop(ddc.pending, bus)]
                    done == setBrightnessImmediateOn(taken, bus,
                                                     ddc.pending[bus],
                                                     ddc.closure[bus], answer)
                IN  /\ ddc' = done.ddc
                    /\ wire' = wire \cup done.ops
                    /\ result' = [op |-> "ddcTimer",
                                  used |-> ddc.closure[bus],
                                  asked |-> ddc.asked[bus]] @@ done.result
  /\ UNCHANGED <<managerVars, cups, i2c, feed, sync, hw, logind, cli>>

\* ------------------------------------------------------ dms brightness set
\* the bus number in a device id "ddc:i2c-N"
BusOf(deviceID) == IF deviceID = "ddc:i2c-1" THEN 1 ELSE NoVal

\* the command is run again, in a new process
CliStart ==
  /\ cli.pc = "exited" /\ cli.run < CliRuns
  /\ cli' = [pc |-> "idle", out |-> "", exit |-> NoVal, wrote |-> FALSE,
             run |-> cli.run + 1]
  /\ ddc' = NewDDC
  /\ UNCHANGED <<managerVars, cups, i2c, feed, sync, hw, logind, wire, result>>

\* runBrightnessSet up to its return or log.Fatalf: the percent checked, the
\* sysfs backend made and asked to write, and with --ddc the bus backend made
\* and asked to write; "Set ..." printed when one of them returned nil
CliSet(deviceID, percent, includeDDC) ==
  /\ cli.pc = "idle"
  /\ \E sysfsOk \in BOOLEAN, file \in {"ok", "failed"},
        responding \in SUBSET Buses :
       LET sysfs == IF sysfsOk
                    THEN SysfsSetBrightness(deviceID, percent, file)
                    ELSE [direct |-> "none", err |-> "no sysfs backend"]
           sc == scanI2CDevices([NewDDC EXCEPT !.made = TRUE], responding)
           set == DDCSetBrightness(sc.ddc, BusOf(deviceID), percent)
           fatal(msg) == [cli EXCEPT !.pc = "exited", !.out = msg, !.exit = 1]
           printed(w) == [cli EXCEPT !.pc = "returned", !.out = "Set",
                                     !.wrote = w]
       IN  IF percent < 0 \/ percent > 100
           THEN /\ cli' = fatal("Percent must be between 0 and 100")
                /\ UNCHANGED <<hw, ddc, wire>>
           ELSE IF sysfs.err = ""
           THEN /\ hw' = [hw EXCEPT ![deviceID] =
                            SysfsPercentToValue(percent, MinValueOf(deviceID),
                                                SysfsMax)]
                /\ cli' = printed(TRUE)
                /\ UNCHANGED <<ddc, wire>>
           ELSE IF includeDDC
           THEN /\ ddc' = set.ddc
                /\ wire' = wire \cup sc.ops
                /\ cli' = IF set.err = "" THEN printed(FALSE)
                          ELSE fatal("Failed to set brightness for device")
                /\ UNCHANGED hw
           ELSE /\ cli' = fatal("Failed to set brightness for device")
                /\ UNCHANGED <<hw, ddc, wire>>
  /\ UNCHANGED <<managerVars, cups, i2c, feed, sync, logind, result>>

\* the callback of the bus backend's timer 200 ms after SetBrightness, in a
\* process that is still running: the pending percent taken and written
CliTimerFires(bus) ==
  /\ cli.pc = "returned"
  /\ bus \in DOMAIN ddc.timers /\ ddc.timers[bus] = "armed"
  /\ bus \in DOMAIN ddc.pending
  /\ \E answer \in MonitorAnswers :
       LET taken == [ddc EXCEPT !.pending = Drop(ddc.pending, bus),
                                !.timers = Put(ddc.timers, bus, "fired")]
           done == setBrightnessImmediateOn(taken, bus, ddc.pending[bus],
                                            FALSE, answer)
       IN  /\ ddc' = done.ddc
           /\ wire' = wire \cup done.ops
           /\ result' = done.result
           /\ cli' = [cli EXCEPT !.wrote = (cli.wrote \/ done.result.err = "")]
  /\ UNCHANGED <<managerVars, cups, i2c, feed, sync, hw, logind>>

\* runBrightnessSet returns, the deferred ddc.Close() does nothing, main
\* returns and the process ends with its timers
CliExit ==
  /\ cli.pc = "returned"
  /\ cli' = [cli EXCEPT !.pc = "exited", !.exit = 0]
  /\ UNCHANGED <<managerVars, cups, i2c, feed, sync, hw, logind, ddc, wire, result>>

\* ------------------------------------- IncrementBrightness, DecrementBrightness
\* Go's int, modelled with IntBits bits: the least and the greatest value,
\* and a sum or negation as the machine computes it
MinInt == 0 - 2 ^ (IntBits - 1)
MaxInt == 2 ^ (IntBits - 1) - 1
WrapInt(x) == ((x - MinInt) % 2 ^ IntBits) + MinInt

\* IncrementBrightness: the device's percent read from the state, an unknown
\* id refused, the sum with the step cut to 0..100 and SetBrightness called
\* with it; asked is what the caller asked for
IncrementBrightness(deviceID, step, asked) ==
  LET i == IndexOf(state, deviceID)
      currentPercent == state[i].CurrentPercent
      sum == WrapInt(currentPercent + step)
      newPercent == IF sum > 100 THEN 100 ELSE IF sum < 0 THEN 0 ELSE sum
  IN  IF i = 0
      THEN /\ result' = [op |-> "step", asked |-> asked, found |-> FALSE,
                         err |-> "device not found"]
           /\ UNCHANGED <<managerVars, cups, i2c, feed, sync, hw, logind, ddc, wire, cli>>
      ELSE /\ result' = [op |-> "step", asked |-> asked, found |-> TRUE,
                         current |-> currentPercent, called |-> newPercent]
           /\ SetBrightnessSync(deviceID, newPercent)

\* DecrementBrightness: IncrementBrightness(deviceID, -step)
DecrementBrightness(deviceID, step) ==
  IncrementBrightness(deviceID, WrapInt(0 - step),
                      [dir |-> "decrement", step |-> step])

\* ------------------------------------------- the notifier of the printing manager
\* every variable but cups
notCups == <<managerVars, hw, logind, ddc, wire, result, cli, i2c, feed, sync>>

\* notifySubscribers: a send on m.dirty when it has room, else nothing
notifySubscribers(dirty) == IF dirty < DirtyCap THEN dirty + 1 ELSE dirty

\* the notifier that starts a timer for every signal it receives
notifierArmsAlways(seen) == TRUE

\* notifier, lines 416-419: a signal received while pending is dropped
notifierArms(seen) == ~seen

\* stateChanged of the printing manager: !reflect.DeepEqual(old, new)
cupsStateChanged(old, new) == old # new

\* handleSignal: the printers' state is refreshed, to what it was or to
\* something else, and notifySubscribers is called
PrinterEvent(v) ==
  /\ cups.events < CupsEvents
  /\ cups' = [cups EXCEPT !.events = @ + 1, !.printers = v,
                          !.dirty = notifySubscribers(@)]
  /\ UNCHANGED notCups

\* notifier, lines 415-423: a signal is taken off m.dirty. The read of
\* pending is not ordered with the timer goroutine's write of false, so after
\* that write it gives false or still true.
NotifierReceive ==
  /\ cups.dirty > 0
  /\ \E seen \in {cups.pending} \cup (IF cups.raced THEN {TRUE} ELSE {}) :
       cups' = IF notifierArms(seen)
               THEN [cups EXCEPT !.dirty = @ - 1, !.pending = TRUE,
                                 !.raced = FALSE, !.timer = "armed",
                                 !.armed = @ + 1, !.armedAt = cups.now,
                                 !.dropped = 0]
               ELSE [cups EXCEPT !.dirty = @ - 1, !.dropped = @ + 1]
  /\ UNCHANGED notCups

\* time passes
CupsTick ==
  /\ cups.now < CupsTime
  /\ cups' = [cups EXCEPT !.now = @ + 1]
  /\ UNCHANGED notCups

\* the timer's callback, lines 424-448, minGap after it was started: nothing
\* without subscribers, nothing when the snapshot equals the state last sent,
\* else the snapshot offered to every subscriber and remembered
FlushRun ==
  /\ cups.timer = "armed"
  /\ cups.now >= cups.armedAt + MinGapTicks
  /\ LET snap == cups.printers
         skip == \/ DOMAIN cups.queues = {}
                 \/ cups.last # NoVal /\ ~cupsStateChanged(cups.last, snap)
         room == {c \in DOMAIN cups.queues : Len(cups.queues[c]) < CupsChanCap}
     IN  cups' = [cups EXCEPT
                    !.timer = "ending", !.flushes = @ + 1,
                    !.last = IF skip THEN @ ELSE snap,
                    !.queues = IF skip THEN @
                               ELSE [c \in DOMAIN @ |->
                                       IF c \in room THEN Append(@[c], snap)
                                       ELSE @[c]],
                    !.flush = [at |-> cups.now,
                               snap |-> IF DOMAIN cups.queues = {} THEN NoVal
                                        ELSE snap,
                               prev |-> cups.last,
                               sent |-> IF skip THEN 0 ELSE Cardinality(room)]]
  /\ UNCHANGED notCups

\* the callback's last statement: pending = false
FlushEnd ==
  /\ cups.timer = "ending"
  /\ cups' = [cups EXCEPT !.timer = "done", !.pending = FALSE, !.raced = TRUE]
  /\ UNCHANGED notCups

\* Subscribe of the printing manager
CupsSubscribe(id) ==
  /\ id \notin DOMAIN cups.queues
  /\ cups' = [cups EXCEPT !.queues = Put(@, id, <<>>)]
  /\ UNCHANGED notCups

\* Unsubscribe of the printing manager
CupsUnsubscribe(id) ==
  /\ id \in DOMAIN cups.queues
  /\ cups' = [cups EXCEPT !.queues = Drop(@, id)]
  /\ UNCHANGED notCups

\* ------------------------------------- GetDevices of ddc.go, lock by lock
\* The goroutines that call DDCBackend.GetDevices (updateState of any
\* goroutine, the lookup of SetBrightness): each step is one lock operation
\* or one blocking call. i2c.pc[g] names what goroutine g is doing or is
\* about to do; from "Idle" to "TimedOut" it is inside the read transaction
\* of the cached device. Two goroutines can be inside at once: the one of a
\* rescan and the one of a request.
Callers == {"rescan", "request"}

\* every variable but i2c
notI2c == <<managerVars, hw, logind, ddc, wire, result, cli, cups,
           feed, sync>>

\* the scan that never considers itself recent
scanDueAlways(lastScan, now) == TRUE

\* scanI2CDevices, line 46: time.Since(b.lastScan) >= b.scanInterval
scanDue(lastScan, now) ==
  lastScan = NoVal \/ now - lastScan >= ScanIntervalTicks

\* a goroutine with three attempts at reading the feature
mayRetryTwice(retry) == retry < 2

\* GetDevices, line 172: "retry < 1"
mayRetry(retry) == retry < 1

\* time passes
BusTick ==
  /\ i2c.now < BusTime
  /\ i2c' = [i2c EXCEPT !.now = @ + 1]
  /\ UNCHANGED notI2c

\* a goroutine calls GetDevices
GetDevicesCall(g) ==
  /\ i2c.pc[g] = "idle" /\ i2c.passes < BusPasses
  /\ i2c' = [i2c EXCEPT !.pc[g] = "scanLock", !.passes = @ + 1,
                        !.retry[g] = 0, !.writes[g] = 0, !.out[g] = "none"]
  /\ UNCHANGED notI2c

\* scanI2CDevices, lines 43-48: scanMutex taken; a scan within scanInterval
\* of the last one returns at once, releasing it
ScanLock(g) ==
  /\ i2c.pc[g] = "scanLock" /\ i2c.scanMutex = "free"
  /\ i2c' = IF scanDue(i2c.lastScan, i2c.now)
            THEN [i2c EXCEPT !.scanMutex = g, !.pc[g] = "devicesLock"]
            ELSE [i2c EXCEPT !.pc[g] = "readLock"]
  /\ UNCHANGED notI2c

\* scanI2CDevices, lines 50-80: devicesMutex taken for writing and the cache
\* emptied; then, with both locks held, every node stat'ed and probed; then
\* lastScan set and both locks released
ScanProbe(g) ==
  /\ \/ /\ i2c.pc[g] = "devicesLock"
        /\ i2c.writer = "free" /\ i2c.readers = {}
        /\ i2c' = [i2c EXCEPT !.writer = g, !.cache = {},
                              !.pc[g] = "probing",
                              !.probes = Append(@, [start |-> i2c.now,
                                                    end |-> NoVal])]
     \/ /\ i2c.pc[g] = "probing"
        /\ \E found \in SUBSET {1} :
             i2c' = [i2c EXCEPT !.cache = found, !.lastScan = i2c.now,
                                !.writer = "free", !.scanMutex = "free",
                                !.pc[g] = "readLock",
                                !.probes[Len(i2c.probes)].end = i2c.now]
  /\ UNCHANGED notI2c

\* GetDevices, lines 145-150: devicesMutex taken for reading; the loop over
\* the cached devices
ReadLock(g) ==
  /\ i2c.pc[g] = "readLock" /\ i2c.writer = "free"
  /\ i2c' = [i2c EXCEPT !.readers = @ \cup {g},
                        !.pc[g] = IF i2c.cache = {} THEN "readUnlock"
                                  ELSE "Idle"]
  /\ UNCHANGED notI2c

\* GetDevices, lines 151-163: the node opened and the monitor's address set;
\* when either fails the device is skipped
OpenNode(g) ==
  /\ i2c.pc[g] = "Idle"
  /\ \/ i2c' = [i2c EXCEPT !.pc[g] = "AddressSet"]
     \/ i2c' = [i2c EXCEPT !.pc[g] = "readUnlock", !.out[g] = "omitted"]
  /\ UNCHANGED notI2c

\* getVCPFeature, lines 291-315: stale bytes read away, the GET frame written;
\* a write that fails ends the attempt
WriteFrame(g) ==
  /\ i2c.pc[g] \in {"AddressSet", "Retrying"}
  /\ \/ i2c' = [i2c EXCEPT !.pc[g] = "FrameWritten", !.writes[g] = @ + 1]
     \/ i2c' = [i2c EXCEPT !.pc[g] = "WriteFailed", !.writes[g] = @ + 1]
  /\ UNCHANGED notI2c

\* getVCPFeature, lines 317-327: the sleep of 50 ms, then the poll
SettleAndPoll(g) ==
  /\ \/ /\ i2c.pc[g] = "FrameWritten"
        /\ i2c' = [i2c EXCEPT !.pc[g] = "Settling"]
     \/ /\ i2c.pc[g] = "Settling"
        /\ i2c' = [i2c EXCEPT !.pc[g] = "Polling"]
  /\ UNCHANGED notI2c

\* getVCPFeature, lines 327-370: the poll ends with nothing to read after
\* 200 ms, or the response is read and is rejected or decoded
ReadReply(g) ==
  /\ i2c.pc[g] = "Polling"
  /\ \E outcome \in {"TimedOut", "ProtocolError", "Parsed"} :
       i2c' = [i2c EXCEPT !.pc[g] = outcome]
  /\ UNCHANGED notI2c

\* GetDevices, lines 167-197: after a failed attempt one more follows 100 ms
\* later, after a second the device is skipped; a decoded response puts the
\* device in the result
AfterAttempt(g) ==
  /\ \/ /\ i2c.pc[g] \in {"TimedOut", "ProtocolError", "WriteFailed"}
        /\ i2c' = IF mayRetry(i2c.retry[g])
                  THEN [i2c EXCEPT !.pc[g] = "Retrying", !.retry[g] = @ + 1]
                  ELSE [i2c EXCEPT !.pc[g] = "readUnlock",
                                   !.out[g] = "omitted"]
     \/ /\ i2c.pc[g] = "Parsed"
        /\ i2c' = [i2c EXCEPT !.pc[g] = "readUnlock", !.out[g] = "included"]
  /\ UNCHANGED notI2c

\* GetDevices, line 200: the deferred RUnlock, the return
ReadUnlock(g) ==
  /\ i2c.pc[g] = "readUnlock"
  /\ i2c' = [i2c EXCEPT !.readers = @ \ {g}, !.pc[g] = "idle"]
  /\ UNCHANGED notI2c

\* the steps of a goroutine between taking the read lock and returning
ReadPass(g) ==
  \/ OpenNode(g) \/ WriteFrame(g) \/ SettleAndPoll(g) \/ ReadReply(g)
  \/ AfterAttempt(g) \/ ReadUnlock(g)

\* ------------------------------------------- discovery with failing reads
\* The entries of the class directories, and the texts their files can hold;
\* FileMissing stands for a file that os.ReadFile cannot read.
TreeEntries == {"backlight:a", "leds:kbd"}
FileMissing == "(no file)"
FileTexts == {FileMissing, "50\n", "0", "-1", "abc"}

\* strconv.Atoi(strings.TrimSpace(text)) for the texts above
Atoi(text) ==
  CASE text = "50\n" -> [ok |-> TRUE, v |-> 50]
    [] text = "0" -> [ok |-> TRUE, v |-> 0]
    [] text = "-1" -> [ok |-> TRUE, v |-> 0 - 1]
    [] OTHER -> [ok |-> FALSE, v |-> 0]

\* a scan that takes a maximum of 0
validMaxOrZero(text) ==
  text # FileMissing /\ Atoi(text).ok /\ Atoi(text).v >= 0

\* scanDevices, lines 51-61: max_brightness read, parsed and positive
validMax(text) ==
  text # FileMissing /\ Atoi(text).ok /\ Atoi(text).v > 0

\* SysfsBackend.scanDevices: the cache, from id to maxBrightness
scanDevices(tree) ==
  [d \in {e \in TreeEntries : validMax(tree[e].max)} |-> Atoi(tree[d].max).v]

\* SysfsBackend.GetDevices: a device for every cached entry whose brightness
\* file is read and parsed
SysfsGetDevices(cache, tree) ==
  SetToSeq({MakeDevice(d, Atoi(tree[d].brightness).v, cache[d]) :
              d \in {e \in DOMAIN cache :
                       /\ tree[e].brightness # FileMissing
                       /\ Atoi(tree[e].brightness).ok}})

\* Manager.updateState over a sysfs backend made from the tree and a bus
\* backend whose cached monitor answers the read or does not
Discover(tree, sysfsUp, ddcUp, cached, vcpErr) ==
  /\ result.op = "none"
  /\ LET fromSysfs == IF sysfsUp
                      THEN SysfsGetDevices(scanDevices(tree), tree)
                      ELSE <<>>
         fromDDC == IF ddcUp /\ cached /\ vcpErr = ""
                    THEN <<MakeDevice("ddc:i2c-1", 50, 100)>>
                    ELSE <<>>
     IN  result' = [op |-> "discover", tree |-> tree, sysfsUp |-> sysfsUp,
                    ddcUp |-> ddcUp, cached |-> cached, vcpErr |-> vcpErr,
                    state |-> sortDevices(fromSysfs \o fromDDC)]
  /\ UNCHANGED <<managerVars, cups, i2c, feed, sync, hw, logind, ddc, wire, cli>>

\* --------------------------- updateState and NotifySubscribers, lock by lock
\* updateState reads the backends without a lock, takes stateMutex to compare
\* and store, releases it, and only then calls NotifySubscribers, which takes
\* stateMutex again to copy m.state and subMutex to send the copy. A goroutine
\* can be overtaken between any two of these. feed numbers the readings and
\* the commits: held[t] is the reading goroutine t is about to commit, then
\* the commit whose state it is about to send.

\* the variables the steps of updateState and of the handlers leave alone
feedRest == <<hwVars, backendVars, debounceVars, stopChan, closePc, ret,
              histVars, heap, stateRef, snaps, broadcast, optCalls, logind,
              ddc, wire, result, cli, cups, i2c, sync>>

\* updateState, lines 125-145: every ready backend read, the lists merged
\* and sorted
ReadBackends(t) ==
  /\ pc[t] = "read"
  /\ feed.reads < FeedReads
  /\ scan' = [scan EXCEPT ![t] = ScanAll]
  /\ feed' = [feed EXCEPT !.reads = @ + 1, !.held[t] = feed.reads + 1]
  /\ pc' = [pc EXCEPT ![t] = "commit"]
  /\ UNCHANGED <<state, subVars, feedRest>>

\* updateState, lines 147-157: under stateMutex the state is replaced if the
\* reading differs from it
CommitReading(t) ==
  /\ pc[t] = "commit"
  /\ IF stateChanged(state, scan[t])
     THEN /\ state' = scan[t]
          /\ feed' = [feed EXCEPT !.commits = @ + 1,
                                  !.stored = feed.held[t], !.held[t] = 0]
          /\ pc' = [pc EXCEPT ![t] = "notify"]
     ELSE /\ state' = state
          /\ feed' = [feed EXCEPT !.held[t] = 0]
          /\ pc' = [pc EXCEPT ![t] = AfterUpdate(t)]
  /\ scan' = [scan EXCEPT ![t] = <<>>]
  /\ UNCHANGED <<subVars, feedRest>>

\* the commits a queue was given, after a send of commit n to every
\* registered queue with room
Enqueued(recv, n) ==
  [c \in ChanSlots |->
     IF c \in DOMAIN chans /\ Registered(c) /\ Len(chans[c].q) < ChanCap
     THEN Append(recv[c], n) ELSE recv[c]]

\* NotifySubscribers, lines 129-131: m.state copied under stateMutex.RLock
NotifyCopy(t) ==
  /\ pc[t] = "notify"
  /\ scan' = [scan EXCEPT ![t] = state]
  /\ feed' = [feed EXCEPT !.held[t] = feed.commits]
  /\ pc' = [pc EXCEPT ![t] = "send"]
  /\ UNCHANGED <<state, subVars, feedRest>>

\* NotifySubscribers, lines 133-141: under subMutex.RLock the copy is offered
\* to every registered channel
NotifySend(t) ==
  /\ pc[t] = "send"
  /\ chans' = NotifiedChansWith(scan[t])
  /\ feed' = [feed EXCEPT !.recv = Enqueued(@, feed.held[t]), !.held[t] = 0]
  /\ scan' = [scan EXCEPT ![t] = <<>>]
  /\ pc' = [pc EXCEPT ![t] = AfterUpdate(t)]
  /\ UNCHANGED <<state, subscribers, feedRest>>

\* updateState with every point at which the goroutine can be overtaken
UpdateStateSteps(t) ==
  ReadBackends(t) \/ CommitReading(t) \/ NotifyCopy(t) \/ NotifySend(t)

\* ------------------------------------------------ handleSubscribe, by step
\* The goroutines serving brightness.subscribe requests. A request whose id
\* is a number is registered under the default client id; the handler asserts
\* req.ID.(int) when it answers, so these are the requests that are served.
Handlers == {"h1", "h2"}

\* handleSubscribe, lines 123-126
clientID(h) == "brightness-subscriber"

\* an Unsubscribe that closes the channel and keeps the entry
deleteKeepsEntry(registry, id) == registry

\* Unsubscribe, line 123: delete(m.subscribers, id)
delete(registry, id) == Drop(registry, id)

\* handleSubscribe, line 128, and Subscribe: a new channel is made and stored
\* under the client id, replacing the entry the id had
HandlerSubscribe(h) ==
  /\ feed.hpc[h] = "idle"
  /\ Len(chans) < limit.subs
  /\ chans' = Append(chans, [q |-> <<>>, closed |-> FALSE,
                             last |-> <<state>>, dropped |-> FALSE])
  /\ subscribers' = Put(subscribers, clientID(h), Len(chans) + 1)
  /\ feed' = [feed EXCEPT !.hpc[h] = "snapshot", !.own[h] = Len(chans) + 1]
  /\ UNCHANGED <<pc, scan, state, feedRest>>

\* handleSubscribe, line 131: GetState
HandlerSnapshot(h) ==
  /\ feed.hpc[h] = "snapshot"
  /\ feed' = [feed EXCEPT !.hpc[h] = "initial", !.initial[h] = feed.commits]
  /\ UNCHANGED <<pc, scan, state, subVars, feedRest>>

\* handleSubscribe, lines 132-137: the initial state is written to the
\* connection; when the write fails the handler returns
HandlerInitial(h) ==
  /\ feed.hpc[h] = "initial"
  /\ \/ feed' = [feed EXCEPT !.hpc[h] = "loop", !.wrote[h] = 1]
     \/ feed' = [feed EXCEPT !.hpc[h] = "unsubscribe"]
  /\ UNCHANGED <<pc, scan, state, subVars, feedRest>>

\* handleSubscribe, lines 139-146: the next state is taken off the channel
\* and written to the connection; the loop ends when the write fails or when
\* the channel is closed and empty
HandlerLoop(h) ==
  /\ feed.hpc[h] = "loop"
  /\ LET c == feed.own[h] IN
       \/ /\ chans[c].q # <<>>
          /\ chans' = [chans EXCEPT ![c].q = Tail(@)]
          /\ \/ feed' = [feed EXCEPT !.wrote[h] = @ + 1]
             \/ feed' = [feed EXCEPT !.hpc[h] = "unsubscribe"]
       \/ /\ chans[c].q = <<>> /\ chans[c].closed
          /\ feed' = [feed EXCEPT !.hpc[h] = "unsubscribe"]
          /\ UNCHANGED chans
  /\ UNCHANGED <<pc, scan, state, subscribers, feedRest>>

\* handleSubscribe, line 129, and Unsubscribe: the deferred call closes and
\* deletes the channel the client id is mapped to, if there is one
HandlerUnsubscribe(h) ==
  /\ feed.hpc[h] = "unsubscribe"
  /\ IF clientID(h) \in DOMAIN subscribers
     THEN /\ chans' = [chans EXCEPT ![subscribers[clientID(h)]].closed = TRUE]
          /\ subscribers' = delete(subscribers, clientID(h))
     ELSE UNCHANGED subVars
  /\ feed' = [feed EXCEPT !.hpc[h] = "returned"]
  /\ UNCHANGED <<pc, scan, state, feedRest>>

\* handleSubscribe
HandleSubscribe(h) ==
  \/ HandlerSubscribe(h) \/ HandlerSnapshot(h) \/ HandlerInitial(h)
  \/ HandlerLoop(h) \/ HandlerUnsubscribe(h)

\* ---------------------------------------------------------- specifications

UpdateState(t) == UpdateRead(t) \/ UpdateCommit(t) \/ UpdateNotify(t)

InitGoroutines ==
  InitSysfsBackend \/ InitSysfsReady \/ InitDDCBackend \/ InitDDCReady

TimerCallback(i) == TimerFire(i) \/ TimerTake(i) \/ TimerWrite(i)

Close == CloseStopChan \/ CloseWait \/ CloseDebounce \/ CloseSubscribers

\* The debounce path of a running manager: callers, timers, callbacks.
NextDebounce ==
  \/ \E d \in CallIds, p \in CallPercents : SetBrightness(d, p)
  \/ \E i \in TimerSlots : TimerCallback(i)
  \/ \E t \in TimerTasks : UpdateState(t)

SpecDebounce ==
  Running([calls |-> DebounceCalls, subs |-> 0, swaps |-> 0, changes |-> 0])
  /\ [][NextDebounce]_vars

\* Rescanning from start-up on: the backends come up, pollLoop rescans, the
\* hardware changes under the manager, one subscriber listens.
NextScan ==
  \/ MonitorSwap
  \/ \E d \in Devices, v \in OutsideRaw : OutsideChange(d, v)
  \/ InitGoroutines
  \/ PollTick
  \/ \E t \in InitTasks \cup {PollTask} : UpdateState(t)
  \/ Subscribe(ClientSeq[1])
  \/ \E c \in ChanSlots : Receive(c)

SpecScan ==
  Started([calls |-> 0, subs |-> ScanSubs, swaps |-> ScanSwaps,
           changes |-> ScanChanges])
  /\ [][NextScan]_vars

\* Shutdown of a running manager: Close racing with pollLoop, a caller, a
\* debounce callback and a subscriber.
NextClose ==
  \/ PollTick \/ PollExit
  \/ \E t \in TimerTasks \cup {PollTask} : UpdateState(t)
  \/ \E d \in Devices, p \in {50} : SetBrightness(d, p)
  \/ \E i \in TimerSlots : TimerCallback(i)
  \/ \E id \in {ClientSeq[1]} : Subscribe(id)
  \/ Close

SpecClose ==
  Running([calls |-> CloseCalls, subs |-> CloseSubs, swaps |-> 0, changes |-> 0])
  /\ [][NextClose]_vars

\* Fan-out under load: the filesystem device keeps changing under a running
\* manager, pollLoop broadcasts, subscribers read, fall behind or leave.
NextFanout ==
  \/ \E v \in OutsideRaw : OutsideChange("backlight:a", v)
  \/ PollTick
  \/ UpdateState(PollTask)
  \/ \E id \in ClientIds : Unsubscribe(id)
  \/ \E c \in ChanSlots : Receive(c)

SpecFanout ==
  Serving([calls |-> 0, subs |-> FanoutSubs, swaps |-> 0,
           changes |-> FanoutChanges])
  /\ [][NextFanout]_vars

\* A running manager with its subscribers, left to itself between calls: the
\* timers expire, the callbacks and pollLoop keep running, the subscribers
\* read.
NextLive ==
  \/ \E d \in SysfsIds, p \in {0, 50} : SetBrightness(d, p)
  \/ \E i \in TimerSlots : TimerCallback(i)
  \/ \E t \in TimerTasks \cup {PollTask} : UpdateState(t)
  \/ PollTick
  \/ \E c \in ChanSlots : Receive(c)

\* the Go scheduler runs every runnable goroutine, timers expire, the ticker
\* of pollLoop keeps ticking
TasksRun ==
  /\ WF_vars(PollTick)
  /\ WF_vars(UpdateState(PollTask))
  /\ \A i \in 1..LiveCalls : WF_vars(TimerCallback(i) \/ UpdateState(TimerTask(i)))

SpecLive ==
  Serving([calls |-> LiveCalls, subs |-> LiveSubs, swaps |-> 0, changes |-> 0])
  /\ [][NextLive]_vars
  /\ TasksRun

\* Snapshots of a running manager of the synchronous revision: callers read
\* the state, write into what they were given, set a brightness, rescan.
NextSnapshots ==
  \/ GetState
  \/ \E k \in 1..SnapReads, j \in 1..Cardinality(Devices), p \in CallerPercents :
       CallerMutate(k, j, p)
  \/ \E d \in CallIds, p \in {-1, 0, 50} :
       SetBrightnessSync(d, p) /\ UNCHANGED result
  \/ BroadcastFire
  \/ Rescan
  \/ \E c \in ChanSlots : Receive(c)

SpecSnapshots ==
  Tracked([calls |-> SnapCalls, subs |-> SnapSubs, swaps |-> 0, changes |-> 0,
           reads |-> SnapReads])
  /\ [][NextSnapshots]_vars


\* Writes to a sysfs device by a running manager whose connection to the
\* login manager is made, or fails, at any time.
SpecProxy ==
  /\ Running([calls |-> 0, subs |-> 0, swaps |-> 0, changes |-> 0])
  /\ [][\/ InitLogind
        \/ \E d \in CallIds, p \in {0, 1, 25, 50, 75, 100} :
             SysfsWrite(d, p)]_vars


\* The bus backend on its own: made, scanning, read and written at any time,
\* with any set of nodes answering a probe and any answer from a monitor.
SpecBus ==
  /\ Running([calls |-> 0, subs |-> 0, swaps |-> 0, changes |-> 0])
  /\ [][\/ NewDDCBackend
        \/ ScanIntervalPasses
        \/ DDCGetDevices
        \/ \E bus \in Buses, p \in {0, 1, 50, 100}, l \in BOOLEAN :
             setBrightnessImmediate(bus, p, l)]_vars


\* One call of a protocol function, for feature codes, values and replies.
SpecFrames ==
  /\ Running([calls |-> 0, subs |-> 0, swaps |-> 0, changes |-> 0])
  /\ [][/\ result.op = "none"
        /\ \/ \E vcp \in {16, 18}, sent \in SentReplies,
                 n \in {7, 8, 10, 12} :
                getVCPFeature(vcp, sent, n)
           \/ \E code \in {0, 16, 18, 255},
                 value \in {0, 1, 50, 100, 255, 256, 4660, 65535} :
                setVCPFeature(code, value)]_vars

\* One conversion of a percent to a raw value and back, for a backlight, a
\* LED and a monitor, in both modes.
SpecConvert ==
  /\ Running([calls |-> 0, subs |-> 0, swaps |-> 0, changes |-> 0])
  /\ [][/\ result.op = "none"
        /\ \/ \E id \in {"backlight:a", "leds:kbd"},
                 m \in {1, 2, 10, 100, 255, 4095},
                 p \in 0..100, l \in BOOLEAN :
                ConvertSysfs(id, m, p, l)
           \/ \E m \in {1, 2, 10, 100, 255, 4095},
                 p \in 0..100, l \in BOOLEAN :
                ConvertDDC(m, p, l)]_vars

\* Runs of "dms brightness set" for any device id, percent and flag.
SpecCli ==
  /\ Running([calls |-> 0, subs |-> 0, swaps |-> 0, changes |-> 0])
  /\ [][\/ \E d \in CallIds, p \in CallPercents, f \in BOOLEAN : CliSet(d, p, f)
        \/ \E bus \in Buses : CliTimerFires(bus)
        \/ CliExit
        \/ CliStart]_vars

\* Increments and decrements by callers of a running manager of the
\* synchronous revision, for steps across the range of int.
SpecStep ==
  /\ Tracked([calls |-> StepCalls, subs |-> 0, swaps |-> 0, changes |-> 0,
              reads |-> 0])
  /\ [][\/ \E d \in CallIds,
              step \in {MinInt, 0 - 101, 0 - 10, 0, 10, 101, MaxInt} :
             \/ IncrementBrightness(d, step,
                                    [dir |-> "increment", step |-> step])
             \/ DecrementBrightness(d, step)
        \/ BroadcastFire]_vars

\* Callers of a running manager of the synchronous revision setting the
\* brightness of either device, with the broadcast timer expiring in between.
SpecIndep ==
  /\ Tracked([calls |-> IndepCalls, subs |-> 0, swaps |-> 0, changes |-> 0,
              reads |-> 0])
  /\ [][\/ \E d \in CallIds, p \in {0, 50, 101} :
             /\ SetBrightnessSync(d, p)
             /\ result' = [op |-> "setSync", dev |-> d, percent |-> p]
        \/ BroadcastFire]_vars

\* Start-up with callers: the two initialisation goroutines run while
\* SetBrightness is called and its timers expire.
SpecInit ==
  /\ Started([calls |-> InitCalls, subs |-> 0, swaps |-> 0, changes |-> 0])
  /\ [][\/ InitGoroutines
        \/ \E t \in InitTasks \cup TimerTasks : UpdateState(t)
        \/ \E d \in CallIds, p \in {50, 101} : SetBrightness(d, p)
        \/ \E i \in TimerSlots : TimerCallback(i)]_vars

\* The notifier of the printing manager: printer events in bursts, the
\* notifier, its timer, subscribers coming and going.
SpecNotifier ==
  /\ Running([calls |-> 0, subs |-> 0, swaps |-> 0, changes |-> 0])
  /\ [][\/ \E v \in {0, 1} : PrinterEvent(v)
        \/ NotifierReceive
        \/ CupsTick
        \/ FlushRun
        \/ FlushEnd
        \/ \E id \in {"c1"} : CupsSubscribe(id) \/ CupsUnsubscribe(id)]_vars

\* Goroutines calling GetDevices of one bus backend at any time, while time
\* passes. A goroutine inside a read pass is never held up: its system calls
\* return, the poll within its timeout.
SpecBusRead ==
  /\ Running([calls |-> 0, subs |-> 0, swaps |-> 0, changes |-> 0])
  /\ [][\/ BusTick
        \/ \E g \in Callers :
             \/ GetDevicesCall(g) \/ ScanLock(g) \/ ScanProbe(g)
             \/ ReadLock(g) \/ ReadPass(g)]_vars
  /\ \A g \in Callers : WF_vars(ReadPass(g))

\* One discovery over any content of the two entries' files, with either
\* backend ready or not, and a monitor that is found or not and answers the
\* read or not.
SpecDiscover ==
  /\ Running([calls |-> 0, subs |-> 0, swaps |-> 0, changes |-> 0])
  /\ [][\E tree \in [TreeEntries -> [max : FileTexts, brightness : FileTexts]],
           sysfsUp \in BOOLEAN, ddcUp \in BOOLEAN, cached \in BOOLEAN,
           vcpErr \in {"", "poll timeout"} :
          Discover(tree, sysfsUp, ddcUp, cached, vcpErr)]_vars

\* One conversion of a raw value to a percent: for a backlight and a LED of
\* any positive maximum and any content of the brightness file, and for a
\* monitor of any reported maximum and value.
SpecReverse ==
  /\ Running([calls |-> 0, subs |-> 0, swaps |-> 0, changes |-> 0])
  /\ [][/\ result.op = "none"
        /\ \/ \E id \in {"backlight:a", "leds:kbd"},
                 m \in {1, 2, 100, 255},
                 v \in {0 - 1, 0, 1, 2, 50, 100, 255, 256},
                 l \in BOOLEAN :
                ReverseSysfs(id, m, v, l)
           \/ \E m \in {0, 1, 2, 100, 255},
                 v \in {0, 1, 2, 50, 100, 255, 256},
                 l \in BOOLEAN :
                ReverseDDC(m, v, l)]_vars

\* The poll loop and the callback of one debounce timer rescanning a running
\* manager with one subscriber, each overtaking the other at any point.
SpecOrder ==
  /\ Serving([calls |-> 1, subs |-> 1, swaps |-> 0, changes |-> 1])
  /\ [][\/ PollTick
        \/ \E p \in {0, 50} : SetBrightness("backlight:a", p)
        \/ \E i \in TimerSlots : TimerCallback(i)
        \/ \E t \in {PollTask} \cup TimerTasks : UpdateStateSteps(t)
        \/ \E v \in OutsideRaw : OutsideChange("backlight:a", v)]_vars

\* Two subscribe requests served while the poll loop rescans devices that
\* change under it, and one Close.
SpecFeed ==
  /\ Running([calls |-> 0, subs |-> 2, swaps |-> 0, changes |-> 2])
  /\ [][\/ \E h \in Handlers : HandleSubscribe(h)
        \/ PollTick
        \/ PollExit
        \/ UpdateStateSteps(PollTask)
        \/ \E v \in OutsideRaw : OutsideChange("backlight:a", v)
        \/ Close]_vars

\* One subscribe request served while the poll loop and the callback of a
\* debounce timer rescan, each overtaking the other at any point.
SpecSubscribe ==
  /\ Running([calls |-> 1, subs |-> 1, swaps |-> 0, changes |-> 1])
  /\ [][\/ \E h \in Handlers : HandleSubscribe(h)
        \/ PollTick
        \/ UpdateStateSteps(PollTask)
        \/ SetBrightness("backlight:a", 50)
        \/ \E i \in TimerSlots : TimerCallback(i) \/ UpdateStateSteps(TimerTask(i))
        \/ \E v \in OutsideRaw : OutsideChange("backlight:a", v)]_vars

\* Bursts of SetBrightness calls on the bus backend in either mode, and the
\* function of the timer running after them.
SpecBackendDebounce ==
  /\ Running([calls |-> 0, subs |-> 0, swaps |-> 0, changes |-> 0])
  /\ [][\/ NewDDCBackend
        \/ \E bus \in Buses, p \in {0 - 1, 1, 50, 100}, l \in BOOLEAN :
             BackendSetBrightness(bus, p, l)
        \/ \E bus \in Buses : BackendTimerFires(bus)]_vars

\* ------------------------------------------ the mutexes, goroutine by goroutine
notSync == <<managerVars, hw, logind, ddc, wire, result, cli, cups, i2c,
            feed>>

\* the calls a goroutine makes on a mutex, and its other steps: a timer
\* started, stopChan closed, wg.Wait, the manager's timers stopped
Lock(mu) == [do |-> "Lock", mu |-> mu]
Unlock(mu) == [do |-> "Unlock", mu |-> mu]
RLock(mu) == [do |-> "RLock", mu |-> mu]
RUnlock(mu) == [do |-> "RUnlock", mu |-> mu]
Do(what) == [do |-> what, mu |-> "none"]

\* a condition of the code on which the next n operations are made or not
Either(n) == [do |-> "Either", mu |-> "none", n |-> n]

\* SysfsBackend.GetDevices: the attribute files read under the read lock
SysfsGetDevicesLocks ==
  <<RLock("deviceCacheMutex"), RUnlock("deviceCacheMutex")>>

\* SysfsBackend.SetBrightness: GetDevice under the read lock, then the write
SysfsSetBrightnessLocks ==
  <<RLock("deviceCacheMutex"), RUnlock("deviceCacheMutex")>>

\* scanI2CDevices: scanMutex, and when the last scan is older than
\* scanInterval devicesMutex inside it for the probes; the deferred unlocks
\* run in reverse order
scanI2CDevicesLocks ==
  <<Lock("scanMutex"), Either(2),
    Lock("devicesMutex"), Unlock("devicesMutex"), Unlock("scanMutex")>>

\* DDCBackend.GetDevices: the scan, then the monitors read under the read
\* lock
DDCGetDevicesLocks ==
  scanI2CDevicesLocks \o
  <<RLock("devicesMutex"), RUnlock("devicesMutex")>>

\* NotifySubscribers: m.state copied under the read lock, then the sends,
\* none of which blocks, under the registry's read lock
NotifySubscribersLocks ==
  <<RLock("stateMutex"), RUnlock("stateMutex"),
    RLock("subMutex"), RUnlock("subMutex")>>

\* updateState with the broadcast made before stateMutex is released
updateStateNotifiesLocked ==
  SysfsGetDevicesLocks \o DDCGetDevicesLocks \o
  <<Lock("stateMutex"), Either(4)>> \o NotifySubscribersLocks \o
  <<Unlock("stateMutex")>>

\* updateState: both backends read with no lock of the manager held, the
\* reading compared and stored under stateMutex, and the broadcast after
\* the unlock when the state changed
updateStateLocks ==
  SysfsGetDevicesLocks \o DDCGetDevicesLocks \o
  <<Lock("stateMutex"), Unlock("stateMutex"), Either(4)>> \o
  NotifySubscribersLocks

\* Manager.SetBrightness: the device looked for in the sysfs backend and, if
\* it is not there, in the bus backend; then the percent recorded and the
\* timer started under debounceMutex
SetBrightnessLocks(isSysfs) ==
  SysfsGetDevicesLocks \o
  (IF isSysfs THEN <<>> ELSE DDCGetDevicesLocks) \o
  <<Lock("debounceMutex"), Do("arm"), Unlock("debounceMutex")>>

\* DDCBackend.SetBrightness: the device looked up under the read lock, the
\* percent recorded and the timer started or reset under the backend's
\* debounceMutex
DDCSetBrightnessLocks ==
  <<RLock("devicesMutex"), RUnlock("devicesMutex"),
    Lock("ddc.debounceMutex"), Do("armBus"), Unlock("ddc.debounceMutex")>>

\* the function of the manager's timer: the pending percent taken under
\* debounceMutex; when there is one, the backend's SetBrightness and
\* updateState
timerLocks(isSysfs) ==
  LET write == (IF isSysfs THEN SysfsSetBrightnessLocks
                ELSE DDCSetBrightnessLocks) \o updateStateLocks
  IN  <<Lock("debounceMutex"), Unlock("debounceMutex"), Either(Len(write))>>
      \o write

\* the function of the bus backend's timer: the pending percent taken under
\* the backend's debounceMutex; when there is one, setBrightnessImmediate:
\* the device looked up under the read lock, the transaction with no lock
\* held, and dev.max stored under the write lock when it was still 0
busTimerLocks ==
  <<Lock("ddc.debounceMutex"), Unlock("ddc.debounceMutex"), Either(5),
    RLock("devicesMutex"), RUnlock("devicesMutex"), Either(2),
    Lock("devicesMutex"), Unlock("devicesMutex")>>

\* handleSubscribe: Subscribe, GetState, the replies written with no lock
\* held, and the deferred Unsubscribe
handleSubscribeLocks ==
  <<Lock("subMutex"), Unlock("subMutex"),
    RLock("stateMutex"), RUnlock("stateMutex"),
    Lock("subMutex"), Unlock("subMutex")>>

\* Close: stopChan closed, the wait for pollLoop, the timers stopped under
\* debounceMutex, the channels closed under subMutex; DDCBackend.Close is
\* empty
CloseLocks ==
  <<Do("stop"), Do("wait"),
    Lock("debounceMutex"), Do("stopTimers"), Unlock("debounceMutex"),
    Lock("subMutex"), Unlock("subMutex")>>

\* the operation goroutine g is at
AtOp(g) == IF sync.rest[g] = <<>> THEN Do("idle") ELSE Head(sync.rest[g])

\* some goroutine is inside Lock on mu, waiting or about to: RWMutex.Lock
\* keeps new readers out from the moment it is called
WriterPending(mu) == \E u \in Goroutines : AtOp(u) = Lock(mu)

\* whether the operation g is at can complete now
MayProceed(g) ==
  LET op == AtOp(g)
  IN  CASE op.do = "Lock" ->
             sync.writer[op.mu] = "free" /\ sync.readers[op.mu] = {}
        [] op.do = "RLock" ->
             sync.writer[op.mu] = "free" /\ ~WriterPending(op.mu)
        [] op.do = "wait" -> ~sync.polling
        [] op.do = "idle" -> FALSE
        [] OTHER -> TRUE

\* a call of SetBrightness, handleSubscribe or Close arrives
SyncCall(g) ==
  /\ g \in {"setBrightness", "handleSubscribe", "close"}
  /\ g \notin sync.called
  /\ \E isSysfs \in BOOLEAN :
       sync' = [sync EXCEPT
                  !.called = @ \cup {g},
                  !.rest[g] =
                    CASE g = "setBrightness" -> SetBrightnessLocks(isSysfs)
                      [] g = "handleSubscribe" -> handleSubscribeLocks
                      [] OTHER -> CloseLocks]
  /\ UNCHANGED notSync

\* a timer that was started expires and its function starts in a goroutine
\* of its own
TimerExpires(g) ==
  /\ g \in sync.armed /\ sync.rest[g] = <<>>
  /\ \E isSysfs \in BOOLEAN :
       sync' = [sync EXCEPT
                  !.armed = @ \ {g},
                  !.rest[g] = IF g = "timer" THEN timerLocks(isSysfs)
                              ELSE busTimerLocks]
  /\ UNCHANGED notSync

\* pollLoop takes a tick and calls updateState
SyncPollTick ==
  /\ sync.polling /\ sync.rest["pollLoop"] = <<>>
  /\ sync.ticks < SyncTicks
  /\ sync' = [sync EXCEPT !.ticks = @ + 1,
                          !.rest["pollLoop"] = updateStateLocks]
  /\ UNCHANGED notSync

\* pollLoop finds stopChan closed and returns; the deferred wg.Done runs
SyncPollExit ==
  /\ sync.polling /\ sync.rest["pollLoop"] = <<>>
  /\ sync.stopped
  /\ sync' = [sync EXCEPT !.polling = FALSE]
  /\ UNCHANGED notSync

\* goroutine g completes the operation it is at; at a condition it goes on
\* with the next operation or with the one after the branch
SyncStep(g) ==
  /\ sync.rest[g] # <<>>
  /\ MayProceed(g)
  /\ LET op == AtOp(g)
         after == [sync EXCEPT !.rest[g] = Tail(@)]
     IN  IF op.do = "Either"
         THEN \/ sync' = after
              \/ sync' = [sync EXCEPT
                            !.rest[g] = SubSeq(@, op.n + 2, Len(@))]
         ELSE
         sync' =
           CASE op.do = "Lock" -> [after EXCEPT !.writer[op.mu] = g]
             [] op.do = "Unlock" -> [after EXCEPT !.writer[op.mu] = "free"]
             [] op.do = "RLock" -> [after EXCEPT !.readers[op.mu] = @ \cup {g}]
             [] op.do = "RUnlock" -> [after EXCEPT !.readers[op.mu] = @ \ {g}]
             [] op.do = "arm" -> [after EXCEPT !.armed = @ \cup {"timer"}]
             [] op.do = "armBus" -> [after EXCEPT !.armed = @ \cup {"busTimer"}]
             [] op.do = "stopTimers" -> [after EXCEPT !.armed = @ \ {"timer"}]
             [] op.do = "stop" -> [after EXCEPT !.stopped = TRUE]
             [] OTHER -> after
  /\ UNCHANGED notSync

\* One call of SetBrightness, of handleSubscribe and of Close, the rescans
\* of pollLoop and the two timers, interleaved lock operation by lock
\* operation; a goroutine that can complete its operation does so in the
\* end, and pollLoop returns once stopChan is closed.
SpecLocks ==
  /\ Running([calls |-> 0, subs |-> 0, swaps |-> 0, changes |-> 0])
  /\ [][\/ \E g \in Goroutines : SyncCall(g)
        \/ \E g \in {"timer", "busTimer"} : TimerExpires(g)
        \/ SyncPollTick
        \/ SyncPollExit
        \/ \E g \in Goroutines : SyncStep(g)]_vars
  /\ \A g \in Goroutines : WF_vars(SyncStep(g))
  /\ WF_vars(SyncPollExit)

\* ------------------------------------------------------------------ claims

TimersOf(d) == {i \in 1..Len(timers) : timers[i].dev = d}
Took(i) == timers[i].val # NoVal
PastWrite(i) == pc[TimerTask(i)] \in {"read", "commit", "notify", "done"}
Last(s) == s[Len(s)]

\* C1: the accepted calls for a device that arrive before a timer callback
\* takes the pending percent form one batch. Every batch a callback takes is
\* handed to the backend exactly once, with the percent of the batch's last
\* call; a callback that finds no pending percent performs no backend write.
C1_OneWritePerBatch ==
  \A d \in Devices :
    /\ issued[d] = expected[d]
    /\ Cardinality({i \in TimersOf(d) : Took(i)}) = Len(issued[d])
    /\ (d \in DOMAIN debouncePending) <=> (batch[d] # <<>>)
    /\ d \in DOMAIN debouncePending => debouncePending[d] = Last(batch[d])
    /\ \A i \in TimersOf(d) :
         /\ timers[i].wrote = (IF Took(i) /\ PastWrite(i) THEN 1 ELSE 0)
         /\ pc[TimerTask(i)] = "writing" => Took(i)

\* C1 witness: two calls for one device were coalesced: the first timer's
\* callback took and wrote the second call's percent, the second timer's
\* callback found nothing pending and ended without a write.
C1_Witness ==
  /\ Len(timers) = 2
  /\ timers[1].dev = timers[2].dev
  /\ timers[1].wrote = 1 /\ timers[1].val = 50
  /\ pc[TimerTask(2)] = "done" /\ ~Took(2) /\ timers[2].wrote = 0
  /\ issued[timers[1].dev] = <<50>>

\* no accepted call, pending percent or running callback is left for d
Settled(d) ==
  /\ d \notin DOMAIN debouncePending
  /\ \A i \in TimersOf(d) : pc[TimerTask(i)] \notin {"armed", "fired", "writing"}

\* C2 (as claimed): per device, two backend writes are never in progress at
\* once, and once every request is settled and every write went through, the
\* percent that reached the device last is the percent requested last.
C2_TotalOrderLastWins ==
  \A d \in Devices :
    /\ Cardinality({i \in TimersOf(d) : pc[TimerTask(i)] = "writing"}) <= 1
    /\ (/\ Settled(d)
        /\ expected[d] # <<>>
        /\ \A i \in TimersOf(d) : Took(i) => timers[i].ok)
       => lastWritten[d] = Last(expected[d])

OwnedIds == (IF sysfsBackend THEN SysfsIds ELSE {})
            \cup (IF ddcBackend THEN DDCIds ELSE {})

\* C3: a SetBrightness call with a percent outside 0..100 returns the
\* out-of-range error, one with an in-range percent and an id no backend
\* lists returns the not-found error; either leaves the pending table, the
\* timer table and every timer as they were, and no percent outside 0..100
\* and no unlisted id is ever handed to a backend.
C3_RejectedNoEffect ==
  /\ [][\A d \in CallIds, p \in CallPercents :
          (SetBrightness(d, p) /\ (p < 0 \/ p > 100 \/ d \notin OwnedIds))
          => /\ ret' = (IF p < 0 \/ p > 100 THEN "out of range" ELSE "not found")
             /\ UNCHANGED <<debouncePending, debounceTimers, timers, pc, hw>>]_vars
  /\ [](\A i \in 1..Len(timers) :
          /\ timers[i].dev \in Devices
          /\ Took(i) => timers[i].val \in 0..100)

\* C3 witness: a call was rejected while a percent was pending and its timer
\* armed; both are still there.
C3_Witness ==
  /\ ret \in {"out of range", "not found"}
  /\ \E d \in DOMAIN debouncePending :
       /\ d \in DOMAIN debounceTimers
       /\ pc[TimerTask(debounceTimers[d])] = "armed"

\* the snapshot st lists device d with raw value v
Shows(st, d, v) == \E k \in 1..Len(st) : st[k].ID = d /\ st[k].Current = v
StateStale(d) == ~Shows(state, d, hw[d])
ViewStale(c, d) == c \in DOMAIN chans /\ ~Shows(chans[c].last[1], d, hw[d])
Closing == closePc # "idle"

\* the write of timer i changed the raw value of its device
Changed(i) == i <= Len(timers) /\ timers[i].changed
\* the snapshot st shows the value timer i wrote
ShowsWrite(st, i) ==
  /\ i <= Len(timers)
  /\ Shows(st, timers[i].dev, WriteValue(timers[i].dev, timers[i].val))

InSync ==
  /\ \A d \in Devices : ~StateStale(d)
  /\ \A c \in DOMAIN chans :
       Registered(c) =>
         \/ chans[c].dropped
         \/ \A d \in Devices : ~ViewStale(c, d)

SameIdsAndCurrent(old, new) ==
  /\ Len(old) = Len(new)
  /\ IdsOf(old) = IdsOf(new)
  /\ \A k \in 1..Len(new) : \A j \in 1..Len(old) :
       old[j].ID = new[k].ID => old[j].Current = new[k].Current

\* ... and with the same maximum raw values
SameReadings(old, new) ==
  /\ SameIdsAndCurrent(old, new)
  /\ \A k \in 1..Len(new) : \A j \in 1..Len(old) :
       old[j].ID = new[k].ID => old[j].Max = new[k].Max

\* what a rescan by task t does with the snapshot it read: nothing when the
\* snapshot is the same as the state, else it replaces the state and goes on
\* to broadcast it
RescanOutcome(t, same) ==
  IF same
  THEN state' = state /\ chans' = chans /\ pc'[t] = AfterUpdate(t)
  ELSE state' = scan[t] /\ pc'[t] = "notify"

\* a broadcast hands the state to every registered subscriber with room
BroadcastsState(t) ==
  \A c \in DOMAIN chans :
    (Registered(c) /\ Len(chans[c].q) < ChanCap)
      => chans'[c].q = Append(chans[c].q, state)

C6_CleanAtReturn ==
  [][(closePc = "subs" /\ closePc' = "returned")
       => /\ debouncePending' = EmptyMap
          /\ debounceTimers' = EmptyMap
          /\ \A i \in 1..Len(timers') : pc'[TimerTask(i)] # "armed"
          /\ \A c \in DOMAIN chans' : chans'[c].closed
          /\ subscribers' = EmptyMap
          /\ pc'[PollTask] = "exited"]_vars

\* C7 as stated: when Close returns every task of the manager has finished:
\* pollLoop, the initialization tasks and every timer callback that has
\* taken its pending percent.
C7_CloseWaitsForTasks ==
  [][(closePc = "subs" /\ closePc' = "returned")
       => /\ pc'[PollTask] = "exited"
          /\ \A t \in InitTasks : pc'[t] = "done"
          /\ \A i \in 1..Len(timers') :
               Took(i)' => pc'[TimerTask(i)] = "done"]_vars

\* C8: NotifySubscribers never waits for a subscriber: whatever the queues
\* hold, the broadcast step can be taken, and it appends the state to every
\* registered queue that has room, leaves a full queue as it is (the update
\* is dropped for that subscriber alone) and touches no other queue.
C8_NeverBlocksDropsOnlyWhenFull ==
  /\ [](\A t \in Tasks : pc[t] = "notify" => ENABLED UpdateNotify(t))
  /\ [][\A t \in Tasks :
          UpdateNotify(t)
            => \A c \in DOMAIN chans :
                 chans'[c].q =
                   IF Registered(c) /\ Len(chans[c].q) < ChanCap
                   THEN Append(chans[c].q, state)
                   ELSE chans[c].q]_vars

\* one subscriber's queue is full and the latest broadcast was dropped for it,
\* while another subscriber was handed that broadcast
C8_Witness ==
  \E c1 \in DOMAIN chans, c2 \in DOMAIN chans :
    /\ Registered(c1) /\ Registered(c2)
    /\ Len(chans[c1].q) = ChanCap /\ chans[c1].dropped
    /\ chans[c1].last # <<state>>
    /\ Len(chans[c2].q) < ChanCap /\ ~chans[c2].dropped
    /\ chans[c2].q # <<>> /\ Last(chans[c2].q) = state

\* C9 as stated: a subscriber for which an update was dropped is brought up
\* to date by the next periodic rescan: when pollLoop finishes a rescan and
\* the subscriber's queue has room, the subscriber has been given the
\* manager's current state, whether or not the hardware changed again.
C9_RescanResyncs ==
  [][\A c \in DOMAIN chans :
       ( /\ Registered(c) /\ chans[c].dropped
         /\ Len(chans[c].q) < ChanCap
         /\ pc[PollTask] \in {"commit", "notify"}
         /\ pc'[PollTask] = "idle" )
       => /\ ~chans'[c].dropped
          /\ chans'[c].last = <<state'>>]_vars

\* a holder of a returned State writes into it
CallerStep ==
  \E k \in 1..Len(snaps), j \in 1..Cardinality(Devices), p \in CallerPercents :
    CallerMutate(k, j, p)

\* C10 as stated: what a caller writes into a State it was given never shows
\* in the manager's state, and nothing the manager does later changes a
\* State that GetState already returned or NotifySubscribers already queued.
C10_SnapshotsAreCopies ==
  [][/\ CallerStep => state' = state
     /\ ~CallerStep => \A k \in 1..Len(snaps) :
                         heap'[snaps[k].ref] = heap[snaps[k].ref]]_vars

\* C11: a write to a sysfs device goes to the logind proxy first whenever the
\* manager has one; the brightness file is written directly exactly when there
\* is no proxy or its call failed, a direct write that succeeds leaves the
\* requested raw value in the file and reports success, and the write reports
\* failure exactly when the direct write was reached and failed.
C11_ProxyFirstThenDirect ==
  result.op = "sysfsWrite" =>
    /\ (result.proxy = "absent") <=> ~result.ready
    /\ (result.direct # "none") <=> (result.proxy \in {"absent", "failed"})
    /\ result.direct = "ok" =>
         /\ hw[result.dev] = result.value
         /\ result.err = ""
    /\ result.proxy = "ok" => result.err = ""
    /\ (result.err # "") <=> (result.direct = "failed")

\* the proxy's call failed and the direct write put a new raw value in place
C11_Witness ==
  /\ result.op = "sysfsWrite"
  /\ result.proxy = "failed" /\ result.direct = "ok"
  /\ result.value # InitialRaw(result.dev)
  /\ hw[result.dev] = result.value

\* C12: the bus backend never opens, addresses, reads or writes the node of a
\* bus of the exclusion set, and no such bus is ever in its device cache.
C12_ExcludedBusesUntouched ==
  /\ \A t \in wire : t[1] \notin IgnorableBuses
  /\ DOMAIN ddc.devices \cap IgnorableBuses = {}

\* a scan has cached every bus outside the exclusion set and their nodes
\* have been used
C12_Witness ==
  /\ ddc.made /\ ddc.fresh
  /\ IgnorableBuses # {}
  /\ DOMAIN ddc.devices = Buses \ IgnorableBuses
  /\ \A i \in Buses \ IgnorableBuses : BusOps(i) \subseteq wire

\* the response passes the four checks of a feature reply
ValidReply(response, vcp) ==
  /\ response[1] = 110 /\ response[3] = 2
  /\ response[4] = 0 /\ response[5] = vcp

\* C13: when the response read starts with the reply-source marker, carries
\* the feature-reply opcode, result code 0 and the feature code asked for,
\* getVCPFeature returns the 16-bit big-endian values at bytes 6..7 (maximum)
\* and 8..9 (current) of the response, which are the monitor's values once
\* the read covers them; in every other case it returns an error and no
\* capability.
C13_ReplyDecoded ==
  result.op = "getVCP" =>
    IF result.n >= 8 /\ ValidReply(result.response, result.vcp)
    THEN /\ result.err = ""
         /\ result.max = result.response[7] * 256 + result.response[8]
         /\ result.current = result.response[9] * 256 + result.response[10]
         /\ result.n >= 10 =>
              /\ result.max = result.sent.max
              /\ result.current = result.sent.current
    ELSE /\ result.err # ""
         /\ "max" \notin DOMAIN result
         /\ "current" \notin DOMAIN result

\* a full valid reply for the feature asked, decoded to maximum 100 and
\* current value 50
C13_Witness ==
  /\ result.op = "getVCP" /\ result.n = 12
  /\ ValidReply(result.response, result.vcp)
  /\ result.err = "" /\ result.max = 100 /\ result.current = 50

\* 0x6E XORed with the first k bytes of a frame
XorOfFirst(frame, k) ==
  LET RECURSIVE Fold(_)
      Fold(j) == IF j = 0 THEN 110 ELSE Xor8(Fold(j - 1), frame[j])
  IN  Fold(k)

\* C14: in every GET and SET frame the last byte is 0x6E XORed with all the
\* bytes before it, the second byte is 0x80 with the number of bytes between
\* it and the checksum, and a SET frame carries the high byte of its 16-bit
\* value and then the low byte.
C14_FramesWellFormed ==
  result.op \in {"getVCP", "setVCP"} =>
    LET f == result.frame IN
      /\ f[Len(f)] = XorOfFirst(f, Len(f) - 1)
      /\ f[2] = 128 + (Len(f) - 3)
      /\ f[4] = result.vcp
      /\ result.op = "getVCP" => Len(f) = 5 /\ f[3] = DDCCI_VCP_GET
      /\ result.op = "setVCP" =>
           /\ Len(f) = 7 /\ f[3] = DDCCI_VCP_SET
           /\ f[5] * 256 + f[6] = result.value
           /\ f[5] \in 0..255 /\ f[6] \in 0..255

\* a SET frame for a value whose two bytes differ and are both non-zero
C14_Witness ==
  /\ result.op = "setVCP" /\ result.value = 4660
  /\ result.frame[5] = 18 /\ result.frame[6] = 52

\* C15: a reply whose checksum byte has one bit inverted is rejected with an
\* error and its maximum and current value are not returned.
C15_BadChecksumRejected ==
  (result.op = "getVCP" /\ result.n = 12 /\ result.sent.flip # 0) =>
    /\ result.err # ""
    /\ "max" \notin DOMAIN result

\* C16: for every percent of 0..100 and every device whose minimum is below
\* its maximum, the percent converted to a raw value and back differs from the
\* percent by at most 1, in both modes and both backends.
C16_RoundTripWithinOne ==
  (/\ result.op \in {"sysfsConvert", "ddcConvert"}
   /\ result.minValue < result.max) =>
    /\ result.back - result.percent <= 1
    /\ result.percent - result.back <= 1

\* C17: for every percent of 0..100, both modes and every maximum of at least
\* 1, the raw value for a backlight is in 1..max, and the raw value for a LED
\* is in 0..max and is 0 for percent 0.
C17_SysfsRawInRange ==
  result.op = "sysfsConvert" =>
    /\ result.class = "backlight" => result.value \in 1..result.max
    /\ result.class = "leds" =>
         /\ result.value \in 0..result.max
         /\ result.percent = 0 => result.value = 0

\* percent 0 for a backlight with more than one raw value gives raw value 1
C17_Witness ==
  /\ result.op = "sysfsConvert" /\ result.class = "backlight"
  /\ result.max > 1 /\ result.percent = 0 /\ result.value = 1

\* C18: for every percent of 0..100 and every maximum the monitor can report,
\* 0 included, the value setBrightnessImmediate puts in the SET frame is at
\* least 1, and it is 1 for percent 0.
C18_BusValueAtLeastOne ==
  (result.op = "ddcSet" /\ result.err = "") =>
    /\ result.value >= 1
    /\ result.frame[5] * 256 + result.frame[6] >= 1
    /\ result.percent = 0 => result.value = 1

\* C19: when "dms brightness set" ends with success, the write to the device
\* was issued before the process ended; when no write was issued it ends
\* with a failure status and a message.
C19_SuccessMeansWritten ==
  cli.pc = "exited" =>
    /\ cli.exit = 0 => cli.wrote
    /\ ~cli.wrote => (cli.exit = 1 /\ cli.out # "" /\ cli.out # "Set")

\* C20: for a device of the state and any integer step, increment and
\* decrement call SetBrightness with exactly the current percent plus or
\* minus the step, cut to 0..100; for an id that is not in the state they
\* fail with not-found and call no SetBrightness.
C20_StepClamped ==
  result.op = "step" =>
    IF result.found
    THEN LET target == IF result.asked.dir = "increment"
                       THEN result.current + result.asked.step
                       ELSE result.current - result.asked.step
         IN  /\ result.called = Min(100, Max(0, target))
             /\ result.called \in 0..100
    ELSE /\ result.err = "device not found"
         /\ "called" \notin DOMAIN result


\* C21 (pending value and timer): an accepted SetBrightness for one device
\* leaves the pending percent, the table's timer and the state of that timer
\* of every other device as they were.
C21_DebouncePerDevice ==
  [][\A a \in Devices :
       (/\ Len(timers') = Len(timers) + 1
        /\ timers'[Len(timers')].dev # a) =>
         /\ (a \in DOMAIN debouncePending') <=> (a \in DOMAIN debouncePending)
         /\ a \in DOMAIN debouncePending =>
              debouncePending'[a] = debouncePending[a]
         /\ (a \in DOMAIN debounceTimers') <=> (a \in DOMAIN debounceTimers)
         /\ a \in DOMAIN debounceTimers =>
              /\ debounceTimers'[a] = debounceTimers[a]
              /\ pc'[TimerTask(debounceTimers[a])] =
                   pc[TimerTask(debounceTimers[a])]]_vars

\* C21: a SetBrightness for one device never changes or cancels the update
\* notification that is pending for a different device: the notification of
\* the other device is still pending, with its timer running, after the call.
C21_OtherDeviceUntouched ==
  [][(/\ optCalls' = optCalls + 1
      /\ broadcast.pending /\ broadcast.timer = "armed"
      /\ broadcast.deviceID # result'.dev) =>
       /\ broadcast'.pending /\ broadcast'.timer = "armed"
       /\ broadcast'.deviceID = broadcast.deviceID]_vars


\* the readiness flag of the backend a device belongs to
ReadyFor(d) == IF d \in SysfsIds THEN sysfsReady ELSE ddcReady

\* C22: whenever SetBrightness finds a device in a backend's list, a timer
\* callback writes to a device, or a rescan reads a device, the readiness
\* flag of that device's backend is set.
C22_BackendsUsedWhenReady ==
  [][/\ Len(timers') = Len(timers) + 1 => ReadyFor(timers'[Len(timers')].dev)
     /\ \A i \in 1..Len(timers) :
          (pc[TimerTask(i)] = "writing" /\ pc'[TimerTask(i)] = "read") =>
            ReadyFor(timers[i].dev)
     /\ \A t \in Tasks :
          (pc[t] = "read" /\ pc'[t] = "commit") =>
            \A k \in 1..Len(scan'[t]) : ReadyFor(scan'[t][k].ID)]_vars


\* C28: a response of which fewer than 10 bytes were received is rejected
\* with an error, so that no maximum and no current value is built from bytes
\* of the buffer that the read did not fill.
C28_ShortReplyRejected ==
  (result.op = "getVCP" /\ result.n < 10) =>
    /\ result.err # ""
    /\ "max" \notin DOMAIN result
    /\ "current" \notin DOMAIN result


\* the linear scheme anchored at percent 1, cut to minimum..max
AnchoredLinear(percent, minimum, max) ==
  IF percent = 0 THEN minimum
  ELSE Min(Max(minimum + (((percent - 1) * (max - minimum)) \div 99), minimum),
           max)

C30_ProportionalAsTested ==
  (result.op = "sysfsConvert" /\ ~result.logarithmic) =>
    /\ result.value =
         result.minValue
           + ((result.percent * (result.max - result.minValue)) \div 100)
    /\ (result.class = "leds" /\ result.max = 255 /\ result.percent = 50) =>
         result.value = 127
    /\ result.percent # 0 => result.back # 0


\* C24: however many change notifications arrive while a flush is pending,
\* one timer and so one flush is outstanding, and it runs no sooner than the
\* minimum gap after the first of them; the dirty channel never holds more
\* than one entry; and a flush that finds the snapshot equal to the state
\* last sent sends to no subscriber and leaves that state as it is.
C24_OneFlushPerBurst ==
  /\ cups.dirty \in 0..1
  /\ cups.pending <=> cups.timer \in {"armed", "ending"}
  /\ cups.armed = cups.flushes + (IF cups.timer = "armed" THEN 1 ELSE 0)
  /\ cups.flushes > 0 =>
       /\ cups.flush.at - cups.armedAt >= MinGapTicks \/ cups.timer = "armed"
       /\ (cups.flush.prev # NoVal /\ cups.flush.snap = cups.flush.prev) =>
            (cups.flush.sent = 0 /\ cups.last = cups.flush.prev)
  /\ [][/\ (cups.pending /\ cups'.dirty < cups.dirty) =>
             (cups'.timer = cups.timer /\ cups'.armed = cups.armed)
        /\ cups'.flushes > cups.flushes =>
             cups.now - cups.armedAt >= MinGapTicks]_vars

\* three notifications in a row, two of them received while the flush was
\* pending, and the one flush that sent the changed state to the subscriber
C24_Witness ==
  /\ cups.events = 3 /\ cups.dropped = 2
  /\ cups.armed = 1 /\ cups.flushes = 1
  /\ cups.flush.sent = 1 /\ cups.flush.snap = 1

\* a goroutine holds one of the locks of the bus backend
HoldsBusLock(g) ==
  i2c.scanMutex = g \/ i2c.writer = g \/ g \in i2c.readers

\* the positions at which a goroutine is inside a blocking call: the probes of
\* the scan, open and ioctl, the write of the frame, the sleeps, the poll and
\* the read
BusIOPositions ==
  {"probing", "Idle", "AddressSet", "Retrying", "FrameWritten", "Settling",
   "Polling"}

\* C26: bus discovery is rate-limited: whatever the interleaving of the calls
\* of GetDevices on one backend, no two goroutines are probing the bus nodes
\* at the same time, only the latest probe can be unfinished, and every probe
\* starts at least the scan interval after the one before it was completed.
C26_DiscoveryRateLimited ==
  /\ Cardinality({g \in Callers : i2c.pc[g] = "probing"}) <= 1
  /\ \A k \in 1..Len(i2c.probes) :
       /\ k < Len(i2c.probes) => i2c.probes[k].end # NoVal
       /\ k > 1 => i2c.probes[k].start - i2c.probes[k - 1].end
                     >= ScanIntervalTicks

\* two probes completed, and a call in between that found the scan recent
C26_Witness ==
  /\ Len(i2c.probes) = 2
  /\ i2c.probes[2].end # NoVal
  /\ i2c.passes = 3

\* C23: no goroutine is inside a blocking call (filesystem, bus, sleep, poll)
\* while it holds the scan lock or the device-cache lock.
C23_NoLockAcrossIO ==
  \A g \in Callers : i2c.pc[g] \in BusIOPositions => ~HoldsBusLock(g)

\* the outcomes after which GetDevices tries again or gives the device up
FailedOutcomes == {"ProtocolError", "TimedOut", "WriteFailed"}

\* C25: the read transaction of a device passes AddressSet, FrameWritten,
\* Settling and Polling in this order, each entered only from the one before
\* it (FrameWritten also from the retry), and an attempt ends in Parsed,
\* ProtocolError or TimedOut only after Polling, or fails at the write of its
\* frame; a failed attempt is retried at most once, so the frame is written at
\* most twice per device and pass; and the pass always ends, with the device
\* in its result exactly when the last attempt ended in Parsed and left out
\* of it otherwise.
C25_ReadTransaction ==
  /\ [](\A g \in Callers : i2c.retry[g] <= 1 /\ i2c.writes[g] <= 2)
  /\ [][\A g \in Callers :
          LET a == i2c.pc[g]
              b == i2c'.pc[g]
          IN  a # b =>
                /\ b = "AddressSet" => a = "Idle"
                /\ b \in {"FrameWritten", "WriteFailed"}
                     => a \in {"AddressSet", "Retrying"}
                /\ b = "Settling" => a = "FrameWritten"
                /\ b = "Polling" => a = "Settling"
                /\ b \in {"Parsed", "ProtocolError", "TimedOut"}
                     => a = "Polling"
                /\ b = "Retrying"
                     => a \in FailedOutcomes /\ i2c.retry[g] = 0
                          /\ i2c'.retry[g] = 1
                /\ a = "Parsed" => i2c'.out[g] = "included"
                /\ a \in FailedOutcomes /\ b # "Retrying"
                     => i2c'.out[g] = "omitted" /\ i2c.retry[g] = 1
                /\ i2c'.out[g] = "included" => a = "Parsed" \/ b = "idle"
                /\ b = "idle" /\ i2c.cache # {}
                     => i2c.out[g] \in {"included", "omitted"}]_vars
  /\ \A g \in Callers : (i2c.pc[g] = "Idle") ~> (i2c.pc[g] = "idle")

\* a pass in which the first attempt failed and the second, after the one
\* retry, was decoded
C25_Witness ==
  \E g \in Callers :
    /\ i2c.pc[g] = "idle" /\ i2c.out[g] = "included"
    /\ i2c.retry[g] = 1 /\ i2c.writes[g] = 2

\* the texts that are an integer, and those that are a positive one
IntegerTexts == {"50\n", "0", "-1"}
PositiveTexts == {"50\n"}

\* C27: discovery and reading are a best-effort union: the state holds, once
\* each, exactly the entries of a ready sysfs backend whose maximum is a
\* positive integer and whose value is an integer, and the monitor of a ready
\* bus backend that was found and answered the read; an entry or a backend
\* that fails takes nothing else with it.
C27_BestEffortUnion ==
  result.op = "discover" =>
    LET readSysfs == IF result.sysfsUp
                     THEN {d \in TreeEntries :
                             /\ result.tree[d].max \in PositiveTexts
                             /\ result.tree[d].brightness \in IntegerTexts}
                     ELSE {}
        readDDC == IF result.ddcUp /\ result.cached /\ result.vcpErr = ""
                   THEN {"ddc:i2c-1"}
                   ELSE {}
    IN  /\ IdsOf(result.state) = readSysfs \cup readDDC
        /\ Len(result.state) = Cardinality(readSysfs \cup readDDC)

\* one entry with a maximum of 0 and a monitor that does not answer, next to
\* an entry that is read: the state holds the one that was read
C27_Witness ==
  /\ result.op = "discover"
  /\ result.sysfsUp /\ result.ddcUp /\ result.cached
  /\ result.vcpErr # ""
  /\ result.tree["backlight:a"].max = "0"
  /\ result.tree["leds:kbd"].brightness = "50\n"
  /\ IdsOf(result.state) = {"leds:kbd"}

\* C31: the percent of a raw value is an integer from 1 to 100, but 0 for a
\* LED at raw value 0; a raw value at or below the minimum gives 1 (the LED
\* at 0 apart), and the raw maximum gives 100.
C31_PercentClamped ==
  result.op \in {"sysfsPercent", "ddcPercent"} =>
    LET ledAtZero == result.class = "leds" /\ result.value = 0
    IN  /\ result.percent = IF ledAtZero THEN 0
                            ELSE Min(Max(result.percent, 1), 100)
        /\ result.value <= result.minValue /\ ~ledAtZero
             => result.percent = 1
        /\ result.value = result.max /\ ~ledAtZero => result.percent = 100

\* C32: a queue is given the committed states in the order of their commits:
\* no queue is given an earlier commit after a later one.
C32_BroadcastInCommitOrder ==
  \A c \in ChanSlots :
    \A i, j \in 1..Len(feed.recv[c]) :
      i < j => feed.recv[c][i] <= feed.recv[c][j]

\* C33: the stored state is never replaced by one built from an earlier
\* reading than the one it was built from.
C33_StoredNeverRegresses == [][feed'.stored >= feed.stored]_vars

\* the queue of handler h is the one its client id is mapped to
OwnRegistered(h) ==
  /\ clientID(h) \in DOMAIN subscribers
  /\ subscribers[clientID(h)] = feed.own[h]

\* C34: the queue a handler was given stays registered until that handler
\* unsubscribes or the manager closes its subscribers: no other step, and no
\* step of another handler, takes it out of the registry.
C34_SubscriptionIsolated ==
  [][\A h \in Handlers :
       OwnRegistered(h) /\ ~OwnRegistered(h)'
         => \/ feed.hpc[h] = "unsubscribe" /\ feed'.hpc[h] = "returned"
            \/ closePc = "subs" /\ closePc' = "returned"]_vars

\* C35: a registered queue is never a closed one, so that a send, which goes
\* to registered queues only, never meets a closed queue, and a close, which
\* Unsubscribe and Close apply to registered queues only, never meets a queue
\* that was closed before; and nothing is added to a closed queue.
C35_NoSendOrCloseOnClosed ==
  /\ [](\A c \in DOMAIN chans : Registered(c) => ~chans[c].closed)
  /\ [][/\ \A c \in DOMAIN chans :
             chans[c].closed => Len(chans'[c].q) <= Len(chans[c].q)
        /\ \A h \in Handlers :
             /\ feed.hpc[h] = "unsubscribe" /\ feed'.hpc[h] = "returned"
             /\ clientID(h) \in DOMAIN subscribers
             => ~chans[subscribers[clientID(h)]].closed
        /\ closePc = "subs" /\ closePc' = "returned"
             => \A c \in DOMAIN chans : Registered(c) => ~chans[c].closed]_vars

\* Close has returned after closing a queue that had been given a state, and
\* a handler has run its deferred Unsubscribe and returned
C35_Witness ==
  /\ closePc = "returned"
  /\ \E h \in Handlers :
       /\ feed.hpc[h] = "returned"
       /\ chans[feed.own[h]].closed
       /\ feed.recv[feed.own[h]] # <<>>

\* no updateState is between its reading and its return
NoRescanRunning ==
  \A t \in Tasks : pc[t] \notin {"read", "commit", "notify", "send"}

\* C39: a handler that registered its queue and then took its initial
\* snapshot is given every state committed after that snapshot: once no
\* rescan is running, every later commit is among those its queue was given,
\* as long as the queue is registered and was never full.
C39_NoCommitMissed ==
  \A h \in Handlers :
    /\ feed.hpc[h] \in {"initial", "loop"}
    /\ OwnRegistered(h)
    /\ NoRescanRunning
    => \A k \in (feed.initial[h] + 1)..feed.commits :
         \E i \in 1..Len(feed.recv[feed.own[h]]) :
           feed.recv[feed.own[h]][i] = k

\* C36: the notifier loses no update: when it has come to rest (no signal in
\* m.dirty, no timer waiting or running) after a flush that took a snapshot,
\* that snapshot is the printers' state as it is now, so that every change
\* followed by a call of notifySubscribers was seen by a flush.
C36_NoUpdateLost ==
  /\ cups.dirty = 0
  /\ cups.timer = "done"
  /\ cups.flush.snap # NoVal
  => cups.flush.snap = cups.printers

\* C37: with no request in flight, a state that a rescan leaves as it is (its
\* reading has the Current and Max of every device of the state) shows for
\* every device the percent of its Current raw value, so that once a rescan
\* has completed no percent of an earlier SetBrightness is left.
C37_NoOptimisticPercentLeft ==
  ~stateChanged(state, ScanAll) =>
    \A k \in 1..Len(state) :
      state[k].CurrentPercent =
        MakeDevice(state[k].ID, state[k].Current, state[k].Max).CurrentPercent


\* C38: the write issued by the bus backend's timer after a burst of
\* SetBrightness calls on a device carries the value that percentToValue
\* gives for the pending percent in the mode of the most recent call, also
\* when the timer was created by an earlier call in the other mode
C38_LatestModeWritten ==
  (result.op = "ddcTimer" /\ result.err = "")
    => result.value = percentToValue(result.percent, result.max, result.asked)


\* goroutine g is inside Lock or RLock and the mutex is not available
BlockedOnMutex(g) ==
  AtOp(g).do \in {"Lock", "RLock"} /\ ~MayProceed(g)

\* C40: the coordinator is deadlock-free: whatever the interleaving of
\* SetBrightness, the rescans, the subscribe handler, the broadcast, the two
\* timers, the bus scan and Close, every goroutine that entered an operation
\* leaves every mutex wait and completes it, and a Close that was called
\* returns
C40_DeadlockFree ==
  /\ <>[](\A g \in Goroutines : sync.rest[g] = <<>>)
  /\ ("close" \in sync.called) ~>
       ("close" \in sync.called /\ sync.rest["close"] = <<>>)

\* Close waits for pollLoop, which is in a rescan, while a goroutine is
\* held up at a mutex that another one holds
C40_Witness ==
  /\ AtOp("close").do = "wait" /\ sync.polling
  /\ sync.rest["pollLoop"] # <<>>
  /\ \E g \in Goroutines : BlockedOnMutex(g)

====
